---- MODULE Spec2Model ----
(***************************************************************************)
(* A model of the JNI generator: its type resolution (type_resolver.py),   *)
(* its overload mangling, its extraction of natives and of called-by-      *)
(* natives, its JNI objects made of javap output and of Java sources and   *)
(* its generation run (jni_generator.py), the parsing of a Java file       *)
(* (parse.py) and the launcher (jni_zero.py).  Python strings are          *)
(* sequences of one-character strings, so that endswith, replace, split    *)
(* and slicing are computed as the code computes them; what a regular      *)
(* expression matched is an input, given by its groups, or is computed     *)
(* on the characters of the line.                                          *)
(***************************************************************************)
EXTENDS Integers, Sequences, FiniteSets, TLC

VARIABLES
  fully_qualified_class,  \* TypeResolver._fully_qualified_class
  imports,                \* TypeResolver._imports
  inner_classes,          \* TypeResolver._inner_classes
  ret,                    \* outcome of the last resolver call
  cbn_in,                 \* list handed to MangleCalledByNatives
  called_by_natives,      \* list returned by MangleCalledByNatives
  nat_in,                 \* declarations matched by _EXTRACT_NATIVES_REGEX
  natives,                \* list returned by ExtractNatives
  parse_in,               \* text handed to a function of parse.py
  parsed,                 \* what that function returned or raised
  options,                \* DoGeneration: the command line's options;
                          \* the launcher: the process that runs it
  jni_objs,               \* DoGeneration: the inputs parsed so far
  pc,                     \* DoGeneration, the launcher: where the run is
  written_headers,        \* DoGeneration: header files written
  written_srcjar,         \* DoGeneration: srcjar files written
  exit_status             \* the process's exit status

vars == <<fully_qualified_class, imports, inner_classes, ret,
          cbn_in, called_by_natives, nat_in, natives, parse_in, parsed,
          options, jni_objs, pc, written_headers, written_srcjar,
          exit_status>>

resolverVars == <<fully_qualified_class, imports, inner_classes, ret>>
mangleVars == <<cbn_in, called_by_natives>>
nativesVars == <<nat_in, natives>>
parseVars == <<parse_in, parsed>>
genVars == <<options, jni_objs, pc, written_headers, written_srcjar,
             exit_status>>

----------------------------------------------------------------------------
(* Bounds *)

MaxImports == 2      \* registered imports
MaxInner == 1        \* registered nested classes
MaxParams == 1       \* parameters of a signature handed to create_signature
MaxCalledByNatives == 2  \* entries of a list handed to MangleCalledByNatives
MaxNatives == 3      \* native declarations in one text
MaxChunks == 3       \* declarations and pieces of text between them in one text
MaxInputFiles == 3   \* input files of one run of DoGeneration
MaxTokens == 3       \* tokens of a text handed to _remove_comments
MaxPieces == 5       \* pieces of a text handed to remove_generics

----------------------------------------------------------------------------
(* Python string primitives *)

Min(S) == CHOOSE x \in S : \A y \in S : x <= y

\* The element of a set of one element: The({e : v \in {x}}) is e for the
\* value v of x, the way a call of the code computes x once and names its
\* value.
The(S) == CHOOSE x \in S : TRUE

StartsWith(s, pre) ==
  Len(pre) <= Len(s) /\ SubSeq(s, 1, Len(pre)) = pre

EndsWith(s, suf) ==
  Len(suf) <= Len(s) /\ SubSeq(s, Len(s) - Len(suf) + 1, Len(s)) = suf

HasChar(s, c) == \E i \in 1..Len(s) : s[i] = c

\* str.replace for one-character patterns
ReplaceChar(s, a, b) == [i \in 1..Len(s) |-> IF s[i] = a THEN b ELSE s[i]]

\* str.index(c): position of the first occurrence (1-based), 0 when absent
IndexOf(s, c) ==
  IF HasChar(s, c) THEN Min({i \in 1..Len(s) : s[i] = c}) ELSE 0

\* str.split(c)
RECURSIVE Split(_, _)
Split(s, c) ==
  IF ~HasChar(s, c) THEN <<s>>
  ELSE LET i == IndexOf(s, c)
       IN <<SubSeq(s, 1, i - 1)>> \o Split(SubSeq(s, i + 1, Len(s)), c)

\* c.join(parts)
RECURSIVE Join(_, _)
Join(parts, c) ==
  IF Len(parts) = 0 THEN <<>>
  ELSE IF Len(parts) = 1 THEN parts[1]
  ELSE parts[1] \o <<c>> \o Join(Tail(parts), c)

\* ''.join(parts)
RECURSIVE Concat(_)
Concat(parts) ==
  IF Len(parts) = 0 THEN <<>> ELSE parts[1] \o Concat(Tail(parts))

\* str.replace(sub, rep): leftmost non-overlapping occurrences, one pass
RECURSIVE ReplaceStr(_, _, _)
ReplaceStr(s, sub, rep) ==
  IF Len(s) = 0 THEN <<>>
  ELSE IF StartsWith(s, sub)
       THEN rep \o ReplaceStr(SubSeq(s, Len(sub) + 1, Len(s)), sub, rep)
       ELSE <<s[1]>> \o ReplaceStr(Tail(s), sub, rep)

UpperChars ==
  {"A","B","C","D","E","F","G","H","I","J","K","L","M",
   "N","O","P","Q","R","S","T","U","V","W","X","Y","Z"}

LowerChars ==
  {"a","b","c","d","e","f","g","h","i","j","k","l","m",
   "n","o","p","q","r","s","t","u","v","w","x","y","z"}

DigitChars == {"0","1","2","3","4","5","6","7","8","9"}

\* str.isupper() of one character
IsUpper(c) == c \in UpperChars

LowerSeq ==
  <<"a","b","c","d","e","f","g","h","i","j","k","l","m",
    "n","o","p","q","r","s","t","u","v","w","x","y","z">>

UpperSeq ==
  <<"A","B","C","D","E","F","G","H","I","J","K","L","M",
    "N","O","P","Q","R","S","T","U","V","W","X","Y","Z">>

\* str.upper() of one character
ToUpper(c) ==
  IF c \in LowerChars
  THEN UpperSeq[CHOOSE i \in 1..Len(LowerSeq) : LowerSeq[i] = c]
  ELSE c

\* the characters of the model in code-point order
CodeOrder ==
  <<"\n", " ", "\"", "$", "(", ")", "*", ",", ".", "/">>
    \o <<"0","1","2","3","4","5","6","7","8","9">>
    \o <<";", "<", ">", "@">> \o UpperSeq \o <<"[", "]", "_">> \o LowerSeq

CharCode(c) == CHOOSE i \in 1..Len(CodeOrder) : CodeOrder[i] = c

\* str.isspace() of one character
IsSpace(c) == c \in {" ", "\n"}

\* str.strip(), str.rstrip()
RECURSIVE RStrip(_)
RStrip(s) ==
  IF Len(s) > 0 /\ IsSpace(s[Len(s)]) THEN RStrip(SubSeq(s, 1, Len(s) - 1))
  ELSE s

RECURSIVE LStrip(_)
LStrip(s) == IF Len(s) > 0 /\ IsSpace(s[1]) THEN LStrip(Tail(s)) ELSE s

Strip(s) == LStrip(RStrip(s))

\* sub in s
RECURSIVE HasSubstr(_, _)
HasSubstr(s, sub) ==
  IF Len(s) < Len(sub) THEN FALSE
  ELSE StartsWith(s, sub) \/ HasSubstr(Tail(s), sub)

\* the character class [0-9a-zA-Z_]
IdentChars == UpperChars \cup LowerChars \cup DigitChars \cup {"_"}

----------------------------------------------------------------------------
(* Text used by the model *)

s_C == <<"C">>
s_I == <<"I">>
s_N == <<"N">>
s_Y == <<"Y">>
s_Z == <<"Z">>
s_String == <<"S","t","r","i","n","g">>
s_Thread == <<"T","h","r","e","a","d">>
s_State == <<"S","t","a","t","e">>
s_List == <<"L","i","s","t">>
s_int == <<"i","n","t">>
s_long == <<"l","o","n","g">>
s_void == <<"v","o","i","d">>
s_boolean == <<"b","o","o","l","e","a","n">>
s_char == <<"c","h","a","r">>
s_short == <<"s","h","o","r","t">>
s_double == <<"d","o","u","b","l","e">>
s_float == <<"f","l","o","a","t">>
s_byte == <<"b","y","t","e">>
s_native == <<"n","a","t","i","v","e">>
s_static == <<"s","t","a","t","i","c">>
s_java_lang == <<"j","a","v","a","/","l","a","n","g","/">>
s_arr == <<"[","]">>

s_q_Thread == <<"q",".","T","h","r","e","a","d">>
s_r_Thread == <<"r",".","T","h","r","e","a","d">>
s_q_O_N == <<"q",".","O",".","N">>
s_O_N == <<"O",".","N">>
s_q_C == <<"q",".","C">>
s_q_star == <<"q",".","*">>
s_p_C == <<"p","/","C">>
s_a_p_C == <<"a","/","p","/","C">>
s_p_XC == <<"p","/","X","C">>
s_q_X == <<"q","/","X">>
s_C_I == <<"C",".","I">>
s_Y_I == <<"Y",".","I">>
s_Thread_State == s_Thread \o <<".">> \o s_State
s_Q == <<"Q">>
s_x == <<"x">>
s_s == <<"s">>
s_final == <<"f","i","n","a","l">>
s_public == <<"p","u","b","l","i","c">>
s_public_ ==
  <<"p","u","b","l","i","c"," ">>
s_private == <<"p","r","i","v","a","t","e">>
s_Foo == <<"F","o","o">>
s_Bar == <<"B","a","r">>
s_Baz == <<"B","a","z">>
s_Is_ == <<"I","s","_">>
s_ForTest == <<"F","o","r","T","e","s","t">>
s_ForTesting == s_ForTest \o <<"i","n","g">>
s_Ptr == <<"P","t","r">>
s_f == <<"f">>
s_g == <<"g">>
s_java_net_URL == <<"j","a","v","a","/","n","e","t","/","U","R","L">>
s_java_lang_String == s_java_lang \o s_String

----------------------------------------------------------------------------
(* type_resolver.py *)

_PRIMITIVE_MAP ==
  (s_int :> <<"I">>) @@ (s_boolean :> <<"Z">>) @@ (s_char :> <<"C">>) @@
  (s_short :> <<"S">>) @@ (s_long :> <<"J">>) @@ (s_double :> <<"D">>) @@
  (s_float :> <<"F">>) @@ (s_byte :> <<"B">>) @@ (s_void :> <<"V">>)

\* java_lang_classes.contains: the fixed table of java.lang names
JavaLangClasses ==
  {s_String, s_Thread, s_Thread \o <<"$">> \o s_State}

java_lang_contains(name) == name \in JavaLangClasses

\* TypeResolver.__init__: self._package
_package(fqc) ==
  LET parts == Split(fqc, "/")
  IN Join(SubSeq(parts, 1, Len(parts) - 1), "/")

\* the first element of seq satisfying P, as a one-element or empty sequence
FirstWhere(seq, P(_)) ==
  LET hits == {i \in 1..Len(seq) : P(seq[i])}
  IN IF hits = {} THEN <<>> ELSE <<seq[Min(hits)]>>

\* _resolve_helper, lines 65-67: the test of the enclosing class and of a
\* registered nested class
OwnClassMatch(qualified_name, param) ==
  \/ EndsWith(qualified_name, <<"/">> \o param)
  \/ EndsWith(qualified_name, <<"$">> \o ReplaceChar(param, ".", "$"))
  \/ qualified_name = param

\* _resolve_helper, line 74
ImportMatch(qualified_name, param) ==
  EndsWith(qualified_name, <<"/">> \o param)

\* mutant: one package segment too many is asked for
IsInnerClassImport_MoreThanThree(qualified_name) ==
  LET components == Split(qualified_name, "/")
  IN /\ Len(components) > 3
     /\ IsUpper(components[Len(components) - 1][1])

\* _resolve_helper, lines 76-77: "Ensure it's not an inner class."
IsInnerClassImport(qualified_name) ==
  LET components == Split(qualified_name, "/")
  IN /\ Len(components) > 2
     /\ IsUpper(components[Len(components) - 1][1])

\* mutant: the same package is assumed without consulting java.lang
FallbackResolve_PackageOnly(fqc, param) ==
  _package(fqc) \o <<"/">> \o param

\* _resolve_helper, lines 95-102: java.lang first, then the package of the
\* enclosing class
FallbackResolve(fqc, param) ==
  IF java_lang_contains(param)
  THEN s_java_lang \o param
  ELSE _package(fqc) \o <<"/">> \o param

\* mutant: java.lang is consulted before the imported outer classes
DottedResolve_LangFirst(fqc, imps, param) ==
  LET components == Split(param, ".")
      outer == Join(SubSeq(components, 1, Len(components) - 1), "/")
      inner == components[Len(components)]
      hit == FirstWhere(imps, LAMBDA q : EndsWith(q, <<"/">> \o outer))
      dollar == ReplaceChar(param, ".", "$")
  IN IF java_lang_contains(dollar) THEN s_java_lang \o dollar
     ELSE IF hit # <<>> THEN hit[1] \o <<"$">> \o inner
     ELSE _package(fqc) \o <<"/">> \o dollar

\* _resolve_helper, lines 86-93: a dotted name against the imported outer
\* classes; the dots become '$' when no import matches
DottedResolve(fqc, imps, param) ==
  LET components == Split(param, ".")
      outer == Join(SubSeq(components, 1, Len(components) - 1), "/")
      inner == components[Len(components)]
      hit == FirstWhere(imps, LAMBDA q : EndsWith(q, <<"/">> \o outer))
  IN IF hit # <<>>
     THEN hit[1] \o <<"$">> \o inner
     ELSE FallbackResolve(fqc, ReplaceChar(param, ".", "$"))

Ok(v) == [err |-> "", val |-> v]
Raise(e) == [err |-> e, val |-> <<>>]

\* mutant: java.lang is consulted before the imports
_resolve_helper_LangBeforeImports(fqc, imps, inner, param) ==
  IF HasChar(param, "/") THEN Ok(param)
  ELSE
    LET own == FirstWhere(<<fqc>> \o inner, LAMBDA q : OwnClassMatch(q, param))
        imp == FirstWhere(imps, LAMBDA q : ImportMatch(q, param))
    IN IF own # <<>> THEN Ok(own[1])
       ELSE IF java_lang_contains(param) THEN Ok(s_java_lang \o param)
       ELSE IF imp # <<>>
            THEN IF IsInnerClassImport(imp[1])
                 THEN Raise("SyntaxError")
                 ELSE Ok(imp[1])
       ELSE IF HasChar(param, ".")
            THEN Ok(DottedResolve(fqc, imps, param))
       ELSE Ok(FallbackResolve(fqc, param))

_resolve_helper(fqc, imps, inner, param) ==
  IF HasChar(param, "/") THEN Ok(param)
  ELSE
    LET own == FirstWhere(<<fqc>> \o inner, LAMBDA q : OwnClassMatch(q, param))
        imp == FirstWhere(imps, LAMBDA q : ImportMatch(q, param))
    IN IF own # <<>> THEN Ok(own[1])
       ELSE IF imp # <<>>
            THEN IF IsInnerClassImport(imp[1])
                 THEN Raise("SyntaxError")
                 ELSE Ok(imp[1])
       ELSE IF HasChar(param, ".")
            THEN Ok(DottedResolve(fqc, imps, param))
       ELSE Ok(FallbackResolve(fqc, param))

\* mutant: an 'if' in place of the 'while': one '[' whatever the dimension
ArrayPrefix_Once(param) ==
  IF EndsWith(param, s_arr) THEN <<"[">> ELSE <<>>

\* java_to_jni, lines 46-48: one '[' for every trailing '[]'
RECURSIVE ArrayPrefix(_)
ArrayPrefix(param) ==
  IF EndsWith(param, s_arr)
  THEN <<"[">> \o ArrayPrefix(SubSeq(param, 1, Len(param) - 2))
  ELSE <<>>

RECURSIVE StripArrays(_)
StripArrays(param) ==
  IF EndsWith(param, s_arr)
  THEN StripArrays(SubSeq(param, 1, Len(param) - 2))
  ELSE param

\* java_to_jni, lines 50-51
StripGeneric(param) ==
  IF HasChar(param, "<") THEN SubSeq(param, 1, IndexOf(param, "<") - 1)
  ELSE param

java_to_jni(fqc, imps, inner, param) ==
  LET prefix == ArrayPrefix(param)
      base == StripGeneric(StripArrays(param))
  IN IF base \in DOMAIN _PRIMITIVE_MAP
     THEN Ok(prefix \o _PRIMITIVE_MAP[base])
     ELSE LET type_name == _resolve_helper(fqc, imps, inner, base)
          IN IF type_name.err # "" THEN type_name
             ELSE Ok(prefix \o <<"L">> \o type_name.val \o <<";">>)

create_signature(fqc, imps, inner, params, returns) ==
  LET ps == [i \in 1..Len(params) |->
               java_to_jni(fqc, imps, inner, params[i].datatype)]
      r == java_to_jni(fqc, imps, inner, returns)
  IN IF (\E i \in 1..Len(ps) : ps[i].err # "") \/ r.err # ""
     THEN Raise("SyntaxError")
     ELSE Ok(<<"\"", "(">> \o Concat([i \in 1..Len(ps) |-> ps[i].val])
             \o <<")">> \o r.val \o <<"\"">>)

\* _IMPORT_REGEX.findall and _INNER_TYPES_REGEX.findall see a text as its
\* import lines and its class/interface/enum declarations, in textual order
Import(name) == [kw |-> "import", name |-> name]
Class(name) == [kw |-> "class", name |-> name]

ImportedNames(contents) ==
  LET ds == SelectSeq(contents, LAMBDA d : d.kw = "import")
  IN [i \in 1..Len(ds) |-> ds[i].name]

DeclaredTypeNames(contents) ==
  LET ds == SelectSeq(contents, LAMBDA d : d.kw = "class")
  IN [i \in 1..Len(ds) |-> ds[i].name]

\* parse_imports_and_nested_types, lines 34-36
NewImports(contents) ==
  LET kept == SelectSeq(ImportedNames(contents),
                        LAMBDA n : ~EndsWith(n, <<"*">>))
  IN [i \in 1..Len(kept) |-> ReplaceChar(kept[i], ".", "/")]

\* parse_imports_and_nested_types, lines 38-40
NewInnerClasses(fqc, contents) ==
  LET kept == SelectSeq(DeclaredTypeNames(contents),
                        LAMBDA n : ~EndsWith(fqc, n))
  IN [i \in 1..Len(kept) |-> fqc \o <<"$">> \o kept[i]]

----------------------------------------------------------------------------
(* Inputs of the resolver *)

FullyQualifiedClasses == {s_p_C, s_a_p_C, s_p_XC}

Decls ==
  {Import(n) : n \in {s_q_Thread, s_r_Thread, s_q_O_N, s_O_N, s_q_C,
                      s_q_star}}
  \cup {Class(n) : n \in {s_C, s_I, s_Thread}}

Contents ==
  {<<d>> : d \in Decls}
  \cup {<<Import(s_q_C), Class(s_C), Class(s_I)>>,
        <<Import(s_q_star), Import(s_q_O_N), Class(s_C)>>}

ResolveParams ==
  {s_C, s_I, s_N, s_Y, s_Z, s_Thread, s_C_I, s_Y_I, s_Thread_State, s_q_X}

JniParams ==
  {s_int, s_void, s_int \o s_arr, s_String,
   s_Thread \o s_arr \o s_arr,
   s_List \o <<"<">> \o s_String \o <<">">> \o s_arr, s_N}

Param(datatype) == [datatype |-> datatype]

SignatureParams == {Param(s_int), Param(s_String), Param(s_N \o s_arr)}
SignatureReturns ==
  {s_void, s_int, s_int \o s_arr, s_String \o s_arr \o s_arr}

SeqsUpTo(S, n) == UNION {[1..k -> S] : k \in 0..n}

\* the sequences of at most n different elements of S
DistinctSeqsUpTo(S, n) ==
  {q \in SeqsUpTo(S, n) : \A i, j \in 1..Len(q) : q[i] = q[j] => i = j}

NoCall == [op |-> "none"]

----------------------------------------------------------------------------
(* Resolver actions *)

Init ==
  /\ fully_qualified_class \in FullyQualifiedClasses
  /\ imports = <<>>
  /\ inner_classes = <<>>
  /\ ret = NoCall
  /\ cbn_in = <<>>
  /\ called_by_natives = [err |-> "", val |-> <<>>]
  /\ nat_in = <<>>
  /\ natives = [err |-> "", val |-> <<>>]
  /\ parse_in = <<>>
  /\ parsed = NoCall
  /\ options = [args_input_files |-> <<>>, input_files |-> <<>>,
                jar_file |-> FALSE, srcjar_path |-> FALSE, output_names |-> <<>>]
  /\ jni_objs = <<>>
  /\ pc = "idle"
  /\ written_headers = <<>>
  /\ written_srcjar = <<>>
  /\ exit_status = -1

\* A call returns before the next one starts: ret holds the outcome of the
\* call until the caller has taken it.
ParseImportsAndNestedTypes ==
  \E contents \in Contents :
    LET imps == imports \o NewImports(contents)
        inner == inner_classes \o NewInnerClasses(fully_qualified_class, contents)
    IN /\ ret = NoCall
       /\ Len(imps) <= MaxImports
       /\ Len(inner) <= MaxInner
       /\ imports' = imps
       /\ inner_classes' = inner
       /\ ret' = [op |-> "parse_imports_and_nested_types", contents |-> contents,
                  inner_classes_before |-> inner_classes]
       /\ UNCHANGED <<fully_qualified_class, mangleVars, nativesVars, parseVars, genVars>>

ResolveHelper ==
  \E param \in ResolveParams :
    /\ ret = NoCall
    /\ ret' = [op |-> "_resolve_helper", param |-> param,
               out |-> _resolve_helper(fully_qualified_class, imports,
                                       inner_classes, param)]
    /\ UNCHANGED <<fully_qualified_class, imports, inner_classes,
                   mangleVars, nativesVars, parseVars, genVars>>

JavaToJni ==
  \E param \in JniParams :
    /\ ret = NoCall
    /\ ret' = [op |-> "java_to_jni", param |-> param,
               out |-> java_to_jni(fully_qualified_class, imports,
                                   inner_classes, param)]
    /\ UNCHANGED <<fully_qualified_class, imports, inner_classes,
                   mangleVars, nativesVars, parseVars, genVars>>

CreateSignature ==
  \E params \in SeqsUpTo(SignatureParams, MaxParams), returns \in SignatureReturns :
    /\ ret = NoCall
    /\ ret' = [op |-> "create_signature", params |-> params,
               returns |-> returns,
               out |-> create_signature(fully_qualified_class, imports,
                                        inner_classes, params, returns)]
    /\ UNCHANGED <<fully_qualified_class, imports, inner_classes,
                   mangleVars, nativesVars, parseVars, genVars>>

\* the caller takes the outcome of the call
TakeResult ==
  /\ ret # NoCall
  /\ ret' = NoCall
  /\ UNCHANGED <<fully_qualified_class, imports, inner_classes,
                 mangleVars, nativesVars, parseVars, genVars>>

Next ==
  \/ ParseImportsAndNestedTypes
  \/ ResolveHelper
  \/ JavaToJni
  \/ CreateSignature
  \/ TakeResult

Spec == Init /\ [][Next]_vars

----------------------------------------------------------------------------
(* The resolution rules as the specification words them, on path segments *)

Segments(path) == Split(path, "/")
LastOf(seq) == seq[Len(seq)]
SimpleNameOf(path) == LastOf(Split(LastOf(Segments(path)), "$"))

IsSimpleName(name) == ~HasChar(name, ".") /\ ~HasChar(name, "/")
IsDottedName(name) == HasChar(name, ".") /\ ~HasChar(name, "/")
OuterOf(name) == SubSeq(name, 1, IndexOf(name, ".") - 1)
InnerOf(name) == SubSeq(name, IndexOf(name, ".") + 1, Len(name))

Resolved == ret.op = "_resolve_helper"

\* rule 1: the enclosing class or a registered nested class, by simple name
\* or as Outer.Inner
Rule1Targets(name) ==
  {q \in {fully_qualified_class} \cup {inner_classes[i] : i \in DOMAIN inner_classes} :
     SimpleNameOf(q) = name}
  \cup {inner_classes[i] : i \in
          {j \in DOMAIN inner_classes :
             name = SimpleNameOf(fully_qualified_class) \o <<".">>
                      \o SimpleNameOf(inner_classes[j])}}

\* rule 2: the registered imports whose last path segment is the name
LastSegmentImports(name) ==
  SelectSeq(imports, LAMBDA q : LastOf(Segments(q)) = name)

\* the same, among the imports of at least two segments ("pkg/Outer")
SuffixImports(name) ==
  SelectSeq(imports, LAMBDA q : Len(Segments(q)) >= 2 /\ LastOf(Segments(q)) = name)

UpperBeforeLast(q) ==
  /\ Len(Segments(q)) >= 2
  /\ Segments(q)[Len(Segments(q)) - 1][1] \in UpperChars

PackageOf(path) ==
  IF HasChar(path, "/")
  THEN SubSeq(path, 1, Len(path) - Len(LastOf(Segments(path))) - 1)
  ELSE <<>>

\* C1: a name that is the simple name of the enclosing class or of a
\* registered nested class, or the dotted form Outer.Inner of a registered
\* nested class, resolves to that class, whatever imports and java.lang
\* classes match the same name.
C1_OwnClassFirst ==
  (Resolved /\ Rule1Targets(ret.param) # {})
    => (ret.out.err = "" /\ ret.out.val \in Rule1Targets(ret.param))

\* C2 as stated: a simple name not matched by rule 1 that equals the last
\* path segment of a registered import resolves to the first such import.
C2_AnyImportResolves ==
  (/\ Resolved
   /\ IsSimpleName(ret.param)
   /\ Rule1Targets(ret.param) = {}
   /\ Len(LastSegmentImports(ret.param)) > 0)
    => (ret.out.err = "" /\ ret.out.val = LastSegmentImports(ret.param)[1])

\* C2 as amended: among the imports of at least two segments, the first one
\* whose last segment is the name decides: its path is the result, before
\* java.lang and the same package, unless it has more than two segments and
\* an uppercase-initial segment before the last, which raises SyntaxError.
C2_FirstSuffixImportDecides ==
  (/\ Resolved
   /\ IsSimpleName(ret.param)
   /\ Rule1Targets(ret.param) = {}
   /\ Len(SuffixImports(ret.param)) > 0)
    => LET first == SuffixImports(ret.param)[1]
       IN IF Len(Segments(first)) > 2 /\ UpperBeforeLast(first)
          THEN ret.out.err = "SyntaxError"
          ELSE ret.out.err = "" /\ ret.out.val = first

C2_Witness ==
  /\ Resolved
  /\ ret.param = s_Thread
  /\ Rule1Targets(s_Thread) = {}
  /\ Len(SuffixImports(s_Thread)) = 2
  /\ SuffixImports(s_Thread)[1] # SuffixImports(s_Thread)[2]
  /\ ret.out.val = SuffixImports(s_Thread)[1]

\* C3 as stated: a simple name whose matched import has an uppercase-initial
\* segment before its last segment raises SyntaxError, however many package
\* segments come before.
C3_AnyInnerImportRaises ==
  (/\ Resolved
   /\ IsSimpleName(ret.param)
   /\ Rule1Targets(ret.param) = {}
   /\ Len(SuffixImports(ret.param)) > 0
   /\ UpperBeforeLast(SuffixImports(ret.param)[1]))
    => (ret.out.err = "SyntaxError" /\ ret.out.val = <<>>)

\* C3 as amended: the matched import raises SyntaxError, and no path is
\* returned, when it has more than two segments (at least one package
\* segment before the outer class) and an uppercase-initial segment before
\* its last segment.
C3_PackagedInnerImportRaises ==
  (/\ Resolved
   /\ IsSimpleName(ret.param)
   /\ Rule1Targets(ret.param) = {}
   /\ Len(SuffixImports(ret.param)) > 0
   /\ UpperBeforeLast(SuffixImports(ret.param)[1])
   /\ Len(Segments(SuffixImports(ret.param)[1])) > 2)
    => (ret.out.err = "SyntaxError" /\ ret.out.val = <<>>)

C3_Witness ==
  /\ Resolved
  /\ ret.param = s_N
  /\ Len(SuffixImports(s_N)) > 0
  /\ Len(Segments(SuffixImports(s_N)[1])) = 3
  /\ ret.out.err = "SyntaxError"

\* C4: a dotted name Outer.Inner matched by neither rule 1 nor rule 2, with
\* an import ending in /Outer registered, resolves to the first such
\* import's path followed by $Inner, before java.lang and the same package.
C4_OuterImportDotted ==
  (/\ Resolved
   /\ IsDottedName(ret.param)
   /\ Rule1Targets(ret.param) = {}
   /\ Len(LastSegmentImports(ret.param)) = 0
   /\ Len(SuffixImports(OuterOf(ret.param))) > 0)
    => /\ ret.out.err = ""
       /\ ret.out.val = SuffixImports(OuterOf(ret.param))[1] \o <<"$">>
                          \o InnerOf(ret.param)

C4_Witness ==
  /\ Resolved
  /\ ret.param = s_Thread_State
  /\ Len(SuffixImports(s_Thread)) > 0
  /\ ReplaceChar(s_Thread_State, ".", "$") \in JavaLangClasses
  /\ ret.out.val = ReplaceChar(s_q_Thread, ".", "/") \o <<"$">> \o s_State

Dims(t) ==
  CHOOSE k \in 0..(Len(t) \div 2) :
    /\ \A j \in 1..k : SubSeq(t, Len(t) - 2 * j + 1, Len(t) - 2 * j + 2) = s_arr
    /\ (2 * k + 2 <= Len(t)
          => SubSeq(t, Len(t) - 2 * k - 1, Len(t) - 2 * k) # s_arr)

BaseOf(t) ==
  LET b == SubSeq(t, 1, Len(t) - 2 * Dims(t))
  IN IF HasChar(b, "<") THEN SubSeq(b, 1, IndexOf(b, "<") - 1) ELSE b

ResolvedPath(name) ==
  _resolve_helper(fully_qualified_class, imports, inner_classes, name)

Encoding(t) ==
  [i \in 1..Dims(t) |-> "["]
    \o (IF BaseOf(t) \in DOMAIN _PRIMITIVE_MAP
        THEN _PRIMITIVE_MAP[BaseOf(t)]
        ELSE <<"L">> \o ResolvedPath(BaseOf(t)).val \o <<";">>)

Encodable(t) ==
  BaseOf(t) \in DOMAIN _PRIMITIVE_MAP \/ ResolvedPath(BaseOf(t)).err = ""

RECURSIVE EncodingOfAll(_)
EncodingOfAll(params) ==
  IF Len(params) = 0 THEN <<>>
  ELSE Encoding(params[1].datatype) \o EncodingOfAll(Tail(params))

Descriptor(params, returns) ==
  <<"(">> \o EncodingOfAll(params) \o <<")">> \o Encoding(returns)

Signed == ret.op = "create_signature"

----------------------------------------------------------------------------
(* jni_generator.py: overload mangling *)

\* java_types.JavaType
PrimitiveType(name, dims) ==
  [array_dimensions |-> dims, primitive_name |-> name, java_class |-> <<>>]
ClassType(path, dims) ==
  [array_dimensions |-> dims, primitive_name |-> <<>>, java_class |-> path]

is_primitive(java_type) ==
  java_type.primitive_name # <<>> /\ java_type.array_dimensions = 0

\* java_types.JavaType.to_descriptor
to_descriptor(java_type) ==
  [i \in 1..java_type.array_dimensions |-> "["]
    \o (IF java_type.primitive_name # <<>>
        THEN _PRIMITIVE_MAP[java_type.primitive_name]
        ELSE <<"L">> \o java_type.java_class \o <<";">>)

\* java_types.JavaSignature
Signature(return_type, param_types) ==
  [return_type |-> return_type, param_types |-> param_types]

MangledType(java_type) ==
  LET descriptor == to_descriptor(java_type)
  IN IF Len(descriptor) <= 2 THEN ReplaceChar(descriptor, "[", "A")
     ELSE Concat([i \in 1..(Len(descriptor) - 1) |->
            LET c == descriptor[i + 1]
            IN IF c = "[" THEN <<"A">>
               ELSE IF IsUpper(c) \/ descriptor[i] \in {"/", "L"}
                    THEN <<ToUpper(c)>>
               ELSE <<>>])

\* re.match(r'[0-9a-zA-Z_]+', s): anchored at the start only, so a match is a
\* non-empty run of identifier characters at the start of s
MatchesIdentPrefix(s) == Len(s) > 0 /\ s[1] \in IdentChars

MangledItems(signature) ==
  [i \in 1..(1 + Len(signature.param_types)) |->
     IF i = 1 THEN MangledType(signature.return_type)
     ELSE MangledType(signature.param_types[i - 1])]

GetMangledMethodName(name, signature) ==
  LET mangled_name == name \o Join(MangledItems(signature), "_")
  IN IF MatchesIdentPrefix(mangled_name)
     THEN Ok(mangled_name)
     ELSE Raise("AssertionError")

\* jni_generator.CalledByNative, the fields the mangling reads and writes;
\* method_id_var_name is <<>> while unset (None)
CalledByNative(java_class_name, name, signature) ==
  [java_class_name |-> java_class_name, name |-> name,
   signature |-> signature, method_id_var_name |-> <<>>]

\* mutant: the owning class is left out of the count's key
SameOverloadGroup_NameOnly(a, b) == a.name = b.name

\* MangleCalledByNatives, lines 303-306 and 311: method_counts is keyed by
\* java_class_name, then by name
SameOverloadGroup(a, b) ==
  a.java_class_name = b.java_class_name /\ a.name = b.name

method_counts(list, entry) ==
  Cardinality({i \in 1..Len(list) : SameOverloadGroup(list[i], entry)})

MangleCalledByNatives(list) ==
  LET ids == [i \in 1..Len(list) |->
                IF method_counts(list, list[i]) > 1
                THEN GetMangledMethodName(list[i].name, list[i].signature)
                ELSE Ok(list[i].name)]
  IN IF \E i \in 1..Len(list) : ids[i].err # ""
     THEN Raise("AssertionError")
     ELSE Ok([i \in 1..Len(list) |->
                [list[i] EXCEPT !.method_id_var_name = ids[i].val]])

----------------------------------------------------------------------------
(* Inputs of the mangling *)

t_void == PrimitiveType(s_void, 0)
t_int == PrimitiveType(s_int, 0)
t_long == PrimitiveType(s_long, 0)

CalledByNativeSet ==
  {CalledByNative(<<>>, s_f, Signature(t_void, <<t_int>>)),
   CalledByNative(<<>>, s_f, Signature(t_void, <<t_long>>)),
   CalledByNative(<<>>, s_f, Signature(t_void, <<PrimitiveType(s_int, 1)>>)),
   CalledByNative(<<>>, s_f, Signature(t_void, <<PrimitiveType(s_int, 2)>>)),
   CalledByNative(<<>>, s_f, Signature(t_void, <<ClassType(s_java_lang_String, 0)>>)),
   CalledByNative(<<>>, s_f, Signature(t_void, <<ClassType(s_java_lang_String, 1)>>)),
   CalledByNative(<<>>, s_f, Signature(t_void, <<ClassType(s_java_net_URL, 0)>>)),
   CalledByNative(s_I, s_f, Signature(t_void, <<t_int>>)),
   CalledByNative(<<>>, s_g, Signature(t_int, <<>>))}

----------------------------------------------------------------------------
(* Mangling actions *)

Mangle ==
  \E list \in DistinctSeqsUpTo(CalledByNativeSet, MaxCalledByNatives) :
    /\ cbn_in' = list
    /\ called_by_natives' = MangleCalledByNatives(list)
    /\ UNCHANGED <<resolverVars, nativesVars, parseVars, genVars>>

MangleNext == Mangle

MangleSpec == Init /\ [][MangleNext]_vars

Mangled == called_by_natives.err = ""
Entries == called_by_natives.val

\* C7: after MangleCalledByNatives every entry has its identifier; it is the
\* plain method name exactly when no other entry has the same (owning class,
\* method name) pair and the method name followed by the mangled return and
\* parameter types otherwise; the list's length and order are unchanged.
C7_OverloadsMangled ==
  /\ Mangled
  /\ Len(Entries) = Len(cbn_in)
  /\ \A i \in 1..Len(Entries) :
       LET e == Entries[i]
           alone == ~\E j \in 1..Len(cbn_in) :
                       /\ j # i
                       /\ cbn_in[j].java_class_name = cbn_in[i].java_class_name
                       /\ cbn_in[j].name = cbn_in[i].name
       IN /\ [e EXCEPT !.method_id_var_name = <<>>] = cbn_in[i]
          /\ e.method_id_var_name # <<>>
          /\ (e.method_id_var_name = e.name) <=> alone
          /\ ~alone =>
               /\ Len(e.method_id_var_name) > Len(e.name)
               /\ e.method_id_var_name =
                    e.name \o MangledType(e.signature.return_type)
                      \o Concat([k \in 1..Len(e.signature.param_types) |->
                                   <<"_">> \o MangledType(e.signature.param_types[k])])

C7_Witness ==
  /\ Mangled
  /\ Len(Entries) = 2
  /\ Entries[1].name = Entries[2].name
  /\ Entries[1].java_class_name # Entries[2].java_class_name
  /\ Entries[1].method_id_var_name = s_f
  /\ Entries[2].method_id_var_name = s_f

\* C8: within one overload group, two entries whose signatures differ
\* receive different identifiers.
C8_CollisionFree ==
  Mangled =>
    \A i, j \in 1..Len(Entries) :
      (/\ Entries[i].java_class_name = Entries[j].java_class_name
       /\ Entries[i].name = Entries[j].name
       /\ Entries[i].signature # Entries[j].signature)
        => Entries[i].method_id_var_name # Entries[j].method_id_var_name

\* C9: every name GetMangledMethodName returns consists only of letters,
\* digits and underscores.
C9_ValidIdentifier ==
  Mangled =>
    \A i \in 1..Len(Entries) :
      \A k \in 1..Len(Entries[i].method_id_var_name) :
        Entries[i].method_id_var_name[k] \in IdentChars

----------------------------------------------------------------------------
(* parse.py: types and parameter lists; jni_generator.py: legacy natives *)

\* java_types.TypeResolver.resolve, the resolution of section 4.1
resolve(name) ==
  _resolve_helper(fully_qualified_class, imports, inner_classes, name)

\* _parse_annotations: the text after the last @Name or @Name("value")
RECURSIVE SkipAnnotationName(_)
SkipAnnotationName(s) ==
  IF Len(s) > 0 /\ s[1] \in IdentChars \cup {"."}
  THEN SkipAnnotationName(Tail(s))
  ELSE s

SkipAnnotationValue(s) ==
  IF Len(s) > 0 /\ s[1] = "(" /\ HasChar(s, ")")
  THEN SubSeq(s, IndexOf(s, ")") + 1, Len(s))
  ELSE s

LastIndexOf(s, c) ==
  IF HasChar(s, c)
  THEN CHOOSE i \in 1..Len(s) : s[i] = c /\ \A j \in (i + 1)..Len(s) : s[j] # c
  ELSE 0

_parse_annotations(value) ==
  IF ~HasChar(value, "@") THEN value
  ELSE LStrip(SkipAnnotationValue(SkipAnnotationName(
         SubSeq(value, LastIndexOf(value, "@") + 1, Len(value)))))

\* parse_type, lines 133-136
RECURSIVE CountArrayMarkers(_)
CountArrayMarkers(value) ==
  IF EndsWith(value, s_arr)
  THEN 1 + CountArrayMarkers(SubSeq(value, 1, Len(value) - 2))
  ELSE 0

parse_type(text) ==
  LET value == _parse_annotations(text)
      array_dimensions == CountArrayMarkers(value)
      base == SubSeq(value, 1, Len(value) - 2 * array_dimensions)
  IN IF base \in DOMAIN _PRIMITIVE_MAP
     THEN Ok(PrimitiveType(base, array_dimensions))
     ELSE LET java_class == resolve(base)
          IN IF java_class.err # "" THEN java_class
             ELSE Ok(ClassType(java_class.val, array_dimensions))

\* _FINAL_REGEX.sub('', value): every "final" that starts a word and is
\* followed by a white-space character goes, with that character
RECURSIVE RemoveFinal(_, _)
RemoveFinal(value, after_word_char) ==
  IF Len(value) = 0 THEN <<>>
  ELSE IF /\ ~after_word_char
          /\ StartsWith(value, s_final)
          /\ Len(value) > Len(s_final)
          /\ IsSpace(value[Len(s_final) + 1])
       THEN RemoveFinal(SubSeq(value, Len(s_final) + 2, Len(value)), FALSE)
       ELSE <<value[1]>> \o RemoveFinal(Tail(value), value[1] \in IdentChars)

\* parse_param_list, lines 161-174, for one piece of the split
ParseParam(piece) ==
  LET param_str == Strip(piece)
      sp == LastIndexOf(param_str, " ")
      head == RStrip(SubSeq(param_str, 1, sp - 1))
      param_name == SubSeq(param_str, sp + 1, Len(param_str))
      typed == IF EndsWith(head, <<".", ".", ".">>)
               THEN SubSeq(head, 1, Len(head) - 3) \o s_arr
               ELSE head
  IN [java_type |-> parse_type(typed), name |-> param_name]

\* parse_param_list with has_names=True
parse_param_list(value) ==
  IF Len(value) = 0 \/ \A i \in 1..Len(value) : IsSpace(value[i])
  THEN Ok(<<>>)
  ELSE LET pieces == Split(RemoveFinal(value, FALSE), ",")
           ps == [i \in 1..Len(pieces) |-> ParseParam(pieces[i])]
       IN IF \E i \in 1..Len(ps) : ps[i].java_type.err # ""
          THEN Raise("SyntaxError")
          ELSE Ok([i \in 1..Len(ps) |->
                     [java_type |-> ps[i].java_type.val, name |-> ps[i].name]])

\* common.capitalize
capitalize(name) == <<ToUpper(name[1])>> \o Tail(name)

_NameIsTestOnly(name) ==
  EndsWith(name, s_ForTest) \/ EndsWith(name, s_ForTesting)

\* NativeMethod.__init__ for a legacy native (is_proxy False); p0_type and
\* method_id_var_name are <<>> while unset (None)
NativeMethod(static, native_class_name, return_type, params, name) ==
  LET is_method ==
        /\ Len(params) > 0
        /\ is_primitive(params[1].java_type)
        /\ params[1].java_type.primitive_name = s_long
        /\ StartsWith(params[1].name, s_native)
  IN [name |-> name,
      cpp_name |-> capitalize(name),
      static |-> static,
      is_proxy |-> FALSE,
      is_test_only |-> _NameIsTestOnly(name),
      signature |-> Signature(return_type,
                              [i \in 1..Len(params) |-> params[i].java_type]),
      params |-> params,
      type |-> IF is_method THEN "method" ELSE "function",
      p0_type |-> IF ~is_method THEN <<>>
                  ELSE IF native_class_name # <<>> /\ native_class_name[1] # <<>>
                  THEN native_class_name[1]
                  ELSE SubSeq(params[1].name, Len(s_native) + 1,
                              Len(params[1].name)),
      method_id_var_name |-> <<>>]

\* the order of the sort keys: strings by code point, tuples field by field
CodesOf(str) == [i \in 1..Len(str) |-> CharCode(str[i])] \o <<0>>

TypeKey(t) ==
  <<t.array_dimensions + 1>> \o CodesOf(t.primitive_name) \o CodesOf(t.java_class)

SignatureKey(sig) ==
  TypeKey(sig.return_type)
    \o Concat([i \in 1..Len(sig.param_types) |-> TypeKey(sig.param_types[i])])
    \o <<0>>

RECURSIVE KeyLess(_, _)
KeyLess(a, b) ==
  IF Len(b) = 0 THEN FALSE
  ELSE IF Len(a) = 0 THEN TRUE
  ELSE IF a[1] = b[1] THEN KeyLess(Tail(a), Tail(b))
  ELSE a[1] < b[1]

\* ExtractNatives, line 236: the key (x.name, x.signature)
NativeSortKey(x) == CodesOf(x.name) \o SignatureKey(x.signature)

\* list.sort is stable: an element goes after the elements that are not
\* greater than it
RECURSIVE InsertNative(_, _)
InsertNative(sorted, x) ==
  IF Len(sorted) = 0 THEN <<x>>
  ELSE IF KeyLess(NativeSortKey(x), NativeSortKey(sorted[1]))
       THEN <<x>> \o sorted
       ELSE <<sorted[1]>> \o InsertNative(Tail(sorted), x)

\* mutant: the list is returned in the order of the declarations
SortNatives_Unsorted(list) == list

RECURSIVE SortNatives(_)
SortNatives(list) ==
  IF Len(list) = 0 THEN <<>>
  ELSE InsertNative(SortNatives(SubSeq(list, 1, Len(list) - 1)), list[Len(list)])

\* a match of _EXTRACT_NATIVES_REGEX: its named groups; native_class_name is
\* <<>> (None) when the annotation is absent and <<value>> when it is
\* matched, the value between its quotes being any text without white
\* space, the empty one included
NativeMatch(native_class_name, qualifiers, return_type, name, params) ==
  [native_class_name |-> native_class_name, qualifiers |-> qualifiers,
   return_type |-> return_type, name |-> name, params |-> params]

\* ExtractNatives, line 234
StoredNativeName(name) == ReplaceStr(name, s_native, <<>>)

ExtractNatives(matches) ==
  LET native(match) ==
        The({IF return_type.err # "" \/ params.err # ""
             THEN Raise("SyntaxError")
             ELSE Ok(NativeMethod(HasSubstr(match.qualifiers, s_static),
                                  match.native_class_name,
                                  return_type.val, params.val,
                                  StoredNativeName(match.name))) :
               return_type \in {parse_type(match.return_type)},
               params \in {parse_param_list(match.params)}})
  IN The({IF \E i \in 1..Len(built) : built[i].err # ""
          THEN Raise("SyntaxError")
          ELSE Ok(SortNatives([i \in 1..Len(built) |-> built[i].val])) :
            built \in {[i \in 1..Len(matches) |-> native(matches[i])]}})

----------------------------------------------------------------------------
(* Inputs of the extraction of natives *)

m_nativeFoo_int ==
  NativeMatch(<<>>, s_public \o <<" ">> \o s_static, s_int,
              s_native \o s_Foo, s_int \o <<" ">> \o s_x)

m_nativeFoo_ptr ==
  NativeMatch(<<>>, s_private, s_void, s_native \o s_Foo,
              s_long \o <<" ">> \o s_native \o s_Ptr \o <<",", " ">>
                \o s_String \o s_arr \o <<" ">> \o s_s)

m_nativeIs_native ==
  NativeMatch(<<>>, s_private, s_void, s_native \o s_Is_ \o s_native, <<>>)

m_nativeBar ==
  NativeMatch(<<s_Q>>, s_private, s_int, s_native \o s_Bar,
              s_long \o <<" ">> \o s_native \o s_Ptr)

\* '@NativeClassQualifiedName("") private native int nativeBar(long nativePtr);'
m_nativeBar_unnamed ==
  NativeMatch(<< <<>> >>, s_private, s_int, s_native \o s_Bar,
              s_long \o <<" ">> \o s_native \o s_Ptr)

\* an annotated native whose first parameter is an int
m_nativeFoo_Q_int ==
  NativeMatch(<<s_Q>>, s_private, s_void, s_native \o s_Foo,
              s_int \o <<" ">> \o s_native \o s_Ptr)

\* a native whose first parameter is an array of long
m_nativeFoo_longs ==
  NativeMatch(<<>>, s_private, s_void, s_native \o s_Foo,
              s_long \o s_arr \o <<" ">> \o s_native \o s_Ptr)

m_nativeBazForTesting ==
  NativeMatch(<<>>, s_private \o <<" ">> \o s_static, s_String,
              s_native \o s_Baz \o s_ForTesting,
              s_final \o <<" ">> \o s_int \o <<" ">> \o s_x)

NativeMatches ==
  {m_nativeFoo_int, m_nativeFoo_ptr, m_nativeIs_native, m_nativeBar,
   m_nativeBazForTesting, m_nativeBar_unnamed, m_nativeFoo_Q_int,
   m_nativeFoo_longs}

----------------------------------------------------------------------------
(* Extraction actions *)

DoExtractNatives ==
  /\ nat_in = <<>>
  /\ \E matches \in DistinctSeqsUpTo(NativeMatches, MaxNatives) :
    /\ nat_in' = matches
    /\ natives' = ExtractNatives(matches)
    /\ UNCHANGED <<resolverVars, mangleVars, parseVars, genVars>>

NativesNext == DoExtractNatives

NativesSpec == Init /\ [][NativesNext]_vars

CountWhere(seq, v) == Cardinality({i \in 1..Len(seq) : seq[i] = v})

\* C10: every matched declaration yields a native whose stored name is the
\* declared name without its leading 'native', so that 'native' + stored
\* name is the declared name; 'public static native int nativeFoo(int x);'
\* alone yields one native Foo, static, with one int parameter, no proxy.
C10_PrefixStripped ==
  /\ natives.err = ""
  /\ Len(natives.val) = Len(nat_in)
  /\ LET declared == [i \in 1..Len(nat_in) |-> nat_in[i].name]
         stored == [i \in 1..Len(natives.val) |-> s_native \o natives.val[i].name]
     IN \A i \in 1..Len(declared) :
          CountWhere(stored, declared[i]) = CountWhere(declared, declared[i])
  /\ nat_in = <<m_nativeFoo_int>> =>
       /\ natives.val[1].name = s_Foo
       /\ natives.val[1].static
       /\ ~natives.val[1].is_proxy
       /\ natives.val[1].signature = Signature(t_int, <<t_int>>)

----------------------------------------------------------------------------
(* jni_generator.py: extraction of the called-by-natives *)

s_Native == <<"N","a","t","i","v","e">>
s_marker ==
  <<"@","C","a","l","l","e","d","B","y","N","a","t","i","v","e">>
s_Unchecked == <<"U","n","c","h","e","c","k","e","d">>
s_NativeClassQualifiedName ==
  s_Native \o <<"C","l","a","s","s","Q","u","a","l","i","f","i","e","d","N","a","m","e">>
s_Constructor == <<"C","o","n","s","t","r","u","c","t","o","r">>

\* a piece of a text: a match of RE_CALLED_BY_NATIVE (its named groups, the
\* annotation <<>> when absent), a match of _EXTRACT_NATIVES_REGEX, or the
\* text between two matches
CalledByNativeMatch(Unchecked, annotation, prefix, return_type, name, params) ==
  [kind |-> "called_by_native", Unchecked |-> Unchecked,
   annotation |-> annotation, prefix |-> prefix, return_type |-> return_type,
   name |-> name, params |-> params]

NativeChunk(match) == [kind |-> "native", match |-> match]

Text(text) == [kind |-> "text", text |-> text]

\* re.finditer(RE_CALLED_BY_NATIVE, contents)
RECURSIVE SelectKind(_, _)
SelectKind(chunks, kind) ==
  IF Len(chunks) = 0 THEN <<>>
  ELSE (IF chunks[1].kind = kind THEN <<chunks[1]>> ELSE <<>>)
         \o SelectKind(Tail(chunks), kind)

\* the text that _EXTRACT_NATIVES_REGEX matched
NativeText(match) ==
  (IF match.native_class_name = <<>> THEN <<>>
   ELSE <<"@">> \o s_NativeClassQualifiedName \o <<"(", "\"">>
          \o match.native_class_name[1] \o <<"\"", ")", " ">>)
    \o match.qualifiers \o <<" ">> \o s_native \o <<" ">>
    \o match.return_type \o <<" ">> \o match.name
    \o <<"(">> \o match.params \o <<")", ";">>

\* re.sub(RE_CALLED_BY_NATIVE, '', contents): the matches go, the rest stays
ChunkResidue(chunk) ==
  IF chunk.kind = "called_by_native" THEN <<>>
  ELSE IF chunk.kind = "native" THEN NativeText(chunk.match)
  ELSE chunk.text

Residue(chunks) == Concat([i \in 1..Len(chunks) |-> ChunkResidue(chunks[i])])

\* ParseError(description, *context_lines)
ParseError(line1, line2) == [err |-> "ParseError", val |-> <<line1, line2>>]

\* mutant: the declared name of a constructor is kept
ExtractedCalledByNative_DeclaredName(match) ==
  LET is_constructor == match.return_type = <<>>
      name == match.name
  IN The({IF return_type.err # "" \/ params.err # ""
          THEN Raise("SyntaxError")
          ELSE Ok([java_class_name |-> match.annotation,
                   name |-> name,
                   signature |-> Signature(return_type.val,
                                  [i \in 1..Len(params.val) |-> params.val[i].java_type]),
                   method_id_var_name |-> <<>>,
                   system_class |-> FALSE,
                   unchecked |-> HasSubstr(match.Unchecked, s_Unchecked),
                   static |-> HasSubstr(match.prefix, s_static),
                   params |-> params.val,
                   is_constructor |-> is_constructor]) :
            return_type \in {parse_type(IF is_constructor THEN match.name
                                        ELSE match.return_type)},
            params \in {parse_param_list(match.params)}})

\* ExtractCalledByNatives, lines 349-368: the entry of one match
ExtractedCalledByNative(match) ==
  LET is_constructor == match.return_type = <<>>
      name == IF is_constructor THEN s_Constructor ELSE match.name
  IN The({IF return_type.err # "" \/ params.err # ""
          THEN Raise("SyntaxError")
          ELSE Ok([java_class_name |-> match.annotation,
                   name |-> name,
                   signature |-> Signature(return_type.val,
                                  [i \in 1..Len(params.val) |-> params.val[i].java_type]),
                   method_id_var_name |-> <<>>,
                   system_class |-> FALSE,
                   unchecked |-> HasSubstr(match.Unchecked, s_Unchecked),
                   static |-> HasSubstr(match.prefix, s_static),
                   params |-> params.val,
                   is_constructor |-> is_constructor]) :
            return_type \in {parse_type(IF is_constructor THEN match.name
                                        ELSE match.return_type)},
            params \in {parse_param_list(match.params)}})

\* ExtractCalledByNatives, line 375: the key (java_class_name, name, signature)
CalledByNativeSortKey(x) ==
  CodesOf(x.java_class_name) \o CodesOf(x.name) \o SignatureKey(x.signature)

RECURSIVE InsertCalledByNative(_, _)
InsertCalledByNative(sorted, x) ==
  IF Len(sorted) = 0 THEN <<x>>
  ELSE IF KeyLess(CalledByNativeSortKey(x), CalledByNativeSortKey(sorted[1]))
       THEN <<x>> \o sorted
       ELSE <<sorted[1]>> \o InsertCalledByNative(Tail(sorted), x)

RECURSIVE SortCalledByNatives(_)
SortCalledByNatives(list) ==
  IF Len(list) = 0 THEN <<>>
  ELSE InsertCalledByNative(SortCalledByNatives(SubSeq(list, 1, Len(list) - 1)),
                            list[Len(list)])

\* ExtractCalledByNatives, lines 370-374: zip(unmatched_lines,
\* unmatched_lines[1:]) pairs each line but the last with the line after it
UnmatchedLines(chunks) == Split(Residue(chunks), "\n")

MarkerPairs(unmatched_lines) ==
  {i \in 1..(Len(unmatched_lines) - 1) : HasSubstr(unmatched_lines[i], s_marker)}

ExtractCalledByNatives(chunks) ==
  LET matches == SelectKind(chunks, "called_by_native")
  IN The({IF \E i \in 1..Len(built) : built[i].err # ""
          THEN Raise("SyntaxError")
          ELSE IF MarkerPairs(unmatched_lines) # {}
          THEN The({ParseError(unmatched_lines[line], unmatched_lines[line + 1]) :
                      line \in {Min(MarkerPairs(unmatched_lines))}})
          ELSE The({MangleCalledByNatives(called_by_natives_list) :
                      called_by_natives_list \in
                        {SortCalledByNatives([i \in 1..Len(built) |-> built[i].val])}}) :
            built \in {[i \in 1..Len(matches) |-> ExtractedCalledByNative(matches[i])]},
            unmatched_lines \in {UnmatchedLines(chunks)}})

----------------------------------------------------------------------------
(* Inputs of the extraction from one text *)

s_R == <<"R">>
s_y == <<"y">>

\* the same name and signature as m_nativeBar, declared by a nested class
m_nativeBar_R ==
  NativeMatch(<<>>, s_private, s_int, s_native \o s_Bar,
              s_long \o <<" ">> \o s_native \o s_R)

c_f_int ==
  CalledByNativeMatch(<<>>, <<>>, s_public \o <<" ">>, s_void, s_f,
                      s_int \o <<" ">> \o s_x)

c_f_long ==
  CalledByNativeMatch(<<>>, <<>>, s_public \o <<" ">>, s_void, s_f,
                      s_long \o <<" ">> \o s_y)

c_I_f_int ==
  CalledByNativeMatch(<<>>, s_I, <<>>, s_void, s_f, s_int \o <<" ">> \o s_x)

\* the same name and signature as c_f_int, declared by a nested class
\* whose annotation does not name it
c_f_int_static ==
  CalledByNativeMatch(<<>>, <<>>, s_static \o <<" ">>, s_void, s_f,
                      s_int \o <<" ">> \o s_y)

c_g ==
  CalledByNativeMatch(s_Unchecked, <<>>, s_static \o <<" ">>, s_int, s_g, <<>>)

c_constructor ==
  CalledByNativeMatch(<<>>, <<>>, s_public \o <<" ">>, <<>>, s_C,
                      s_int \o <<" ">> \o s_x)

x_newline == Text(<<"\n">>)
\* an annotated field: the method pattern does not match it
x_field == Text(s_marker \o <<" ">> \o s_int \o <<" ">> \o s_x \o <<";">>)

Chunks ==
  {NativeChunk(m_nativeBar), NativeChunk(m_nativeBar_R),
   NativeChunk(m_nativeFoo_int),
   c_f_int, c_f_long, c_f_int_static, c_I_f_int, c_g, c_constructor,
   x_newline, x_field}

----------------------------------------------------------------------------
(* Extraction from one text: _do_parse, lines 283-285 *)

NativeMatchesOf(chunks) ==
  LET sel == SelectKind(chunks, "native")
  IN [i \in 1..Len(sel) |-> sel[i].match]

\* One call handles one text, and its outcome does not depend on an earlier
\* call's: the call is taken from the state in which no text has been read.
ExtractFromContents ==
  /\ parse_in = <<>>
  /\ \E chunks \in DistinctSeqsUpTo(Chunks, MaxChunks) :
     \E non_proxy_natives \in {ExtractNatives(NativeMatchesOf(chunks))} :
       /\ parse_in' = chunks
       /\ nat_in' = NativeMatchesOf(chunks)
       /\ natives' = non_proxy_natives
       /\ called_by_natives' =
            IF non_proxy_natives.err # "" THEN non_proxy_natives
            ELSE ExtractCalledByNatives(chunks)
       /\ UNCHANGED <<resolverVars, cbn_in, parsed, genVars>>

ExtractNext == ExtractFromContents

ExtractSpec == Init /\ [][ExtractNext]_vars

\* C11: an occurrence of '@CalledByNative' that the method pattern left in
\* the text, on whichever line of what is left (the last one and the only
\* one included), makes ExtractCalledByNatives raise a ParseError whose
\* context is a line holding the marker and the line after it; no list is
\* returned.
C11_UnmatchedMarkerRaises ==
  HasSubstr(Residue(parse_in), s_marker) =>
    /\ called_by_natives.err = "ParseError"
    /\ HasSubstr(called_by_natives.val[1], s_marker)

\* the text with the declarations i and i+1 exchanged
SwapAdjacent(seq, i) ==
  [k \in 1..Len(seq) |->
     IF k = i THEN seq[i + 1] ELSE IF k = i + 1 THEN seq[i] ELSE seq[k]]

\* the positions of two declarations that follow each other in the text
AdjacentDeclarations ==
  {i \in 1..(Len(parse_in) - 1) :
     parse_in[i].kind # "text" /\ parse_in[i + 1].kind # "text"}

NativesNondecreasing ==
  \A i, j \in 1..Len(natives.val) :
    i < j => ~KeyLess(NativeSortKey(natives.val[j]), NativeSortKey(natives.val[i]))

CalledByNativesNondecreasing ==
  \A i, j \in 1..Len(Entries) :
    i < j => ~KeyLess(CalledByNativeSortKey(Entries[j]),
                      CalledByNativeSortKey(Entries[i]))

SameNativesInAnyOrder ==
  \A i \in AdjacentDeclarations :
    ExtractNatives(NativeMatchesOf(SwapAdjacent(parse_in, i))) = natives

SameCalledByNativesInAnyOrder ==
  \A i \in AdjacentDeclarations :
    ExtractCalledByNatives(SwapAdjacent(parse_in, i)) = called_by_natives

NativeKeysDiffer ==
  \A i, j \in 1..Len(natives.val) :
    NativeSortKey(natives.val[i]) = NativeSortKey(natives.val[j]) => i = j

CalledByNativeKeysDiffer ==
  \A i, j \in 1..Len(Entries) :
    CalledByNativeSortKey(Entries[i]) = CalledByNativeSortKey(Entries[j]) => i = j

\* C12 (as claimed): the natives come in nondecreasing (name, signature)
\* order and the called-by-natives in nondecreasing (owning class, name,
\* signature) order, and a text declaring the same methods in another order
\* yields the same two sequences.
C12_OrderIndependent ==
  (natives.err = "" /\ Mangled) =>
    /\ NativesNondecreasing
    /\ CalledByNativesNondecreasing
    /\ SameNativesInAnyOrder
    /\ SameCalledByNativesInAnyOrder

\* C12 (amended): both lists come in nondecreasing order of their keys; a
\* text declaring the same methods in another order yields the same natives
\* when no two natives have the same (name, signature), and the same
\* called-by-natives when no two of them have the same (owning class, name,
\* signature): the sort is stable, so methods with equal keys keep the order
\* of their declarations.
C12_OrderIndependentWithoutTies ==
  (natives.err = "" /\ Mangled) =>
    /\ NativesNondecreasing
    /\ CalledByNativesNondecreasing
    /\ NativeKeysDiffer => SameNativesInAnyOrder
    /\ CalledByNativeKeysDiffer => SameCalledByNativesInAnyOrder

\* two natives declared in decreasing order of their keys, a called-by-native
\* between them
C12_Witness ==
  /\ parse_in = <<NativeChunk(m_nativeFoo_int), c_f_int, NativeChunk(m_nativeBar)>>
  /\ natives.err = "" /\ Mangled
  /\ Len(natives.val) = 2
  /\ natives.val[1].name = s_Bar
  /\ natives.val[2].name = s_Foo
  /\ Len(Entries) = 1

----------------------------------------------------------------------------
(* jni_generator.py: DoGeneration *)

\* an input file, by what creating its JNI object does: raises is "" or the
\* exception parsing raises; has_methods says that the object has natives or
\* called-by-natives, proxy_natives that it has proxy natives
InputFile(filename, raises, has_methods, proxy_natives, module_name) ==
  [filename |-> filename, raises |-> raises, has_methods |-> has_methods,
   proxy_natives |-> proxy_natives, module_name |-> module_name]

s_A_java ==
  <<"A",".","j","a","v","a">>
s_B_java ==
  <<"B",".","j","a","v","a">>
s_E_java ==
  <<"E",".","j","a","v","a">>
s_P_java ==
  <<"P",".","j","a","v","a">>
s_S_java ==
  <<"S",".","j","a","v","a">>
s_K_kt ==
  <<"K",".","k","t">>
s_a_h ==
  <<"a",".","h">>
s_b_h ==
  <<"b",".","h">>
s_c_h ==
  <<"c",".","h">>
s_d_h ==
  <<"d",".","h">>
s_e_h ==
  <<"e",".","h">>
s_kt ==
  <<".","k","t">>
s_D_java ==
  <<"D",".","j","a","v","a">>

\* a Kotlin file among the sources: _do_parse refuses it with the assert of
\* parse.py lines 254-255
InputFiles ==
  {InputFile(s_A_java, "", TRUE, TRUE, "m1"),
   InputFile(s_B_java, "", TRUE, TRUE, "m2"),
   InputFile(s_D_java, "", TRUE, FALSE, ""),
   InputFile(s_E_java, "", FALSE, FALSE, ""),
   InputFile(s_P_java, "ParseError", FALSE, FALSE, ""),
   InputFile(s_S_java, "SyntaxError", FALSE, FALSE, ""),
   InputFile(s_K_kt, "AssertionError", FALSE, FALSE, "")}

\* the names --output-name may give, in their order
HeaderNames == <<s_a_h, s_b_h, s_c_h, s_d_h, s_e_h>>

\* options.output_names: <<>> when no --output-name is given (None), else
\* <<names>>, of one name less than, as many names as, or one name more than
\* there are inputs
OutputNamesFor(files) ==
  {<<>>} \cup {<<SubSeq(HeaderNames, 1, k)>> :
                 k \in {n \in {Len(files) - 1, Len(files), Len(files) + 1} :
                          n >= 0 /\ n <= Len(HeaderNames)}}

\* main, line 1181: the list without the Kotlin files
WithoutKotlin(input_files) ==
  SelectSeq(input_files, LAMBDA f : ~EndsWith(f.filename, s_kt))

\* main, lines 1181 and 1189: the list of line 1181 is a local that nothing
\* reads; DoGeneration(args) is given args.input_files
GeneratedInputs(input_files) == input_files

\* line 1146: zip(jni_objs, options.output_names) ends with the shorter list
HeadersToWrite(objs, output_names) ==
  IF Len(objs) <= Len(output_names) THEN Len(objs) ELSE Len(output_names)

\* DoGeneration, line 1141: except (ParseError, SyntaxError)
Raises(file) == file.raises \in {"ParseError", "SyntaxError"}

\* mutant: no object counts as empty
has_empty_Never(objs) == FALSE

\* _CheckNotEmpty, lines 1090-1093
has_empty(objs) == \E i \in 1..Len(objs) : ~objs[i].has_methods

\* _CheckSameModule, lines 1075-1079
files_by_module(objs) ==
  {objs[i].module_name : i \in {k \in 1..Len(objs) : objs[k].proxy_natives}}

\* DoGeneration, line 1155
WithProxyNatives(objs) == SelectSeq(objs, LAMBDA x : x.proxy_natives)

\* sys.exit(1)
Exit1 ==
  /\ pc' = "exit"
  /\ exit_status' = 1

\* an exception that nothing catches ends the interpreter with status 1
Uncaught(exception) ==
  /\ pc' = exception
  /\ exit_status' = 1

\* main, lines 1170-1189: a run starts with its options; a run on a jar file
\* is given no srcjar path and no Kotlin file. _RemoveStaleHeaders makes a
\* set of output_names when the output directory exists (line 1063), which
\* raises TypeError for None.
StartGeneration ==
  /\ pc = "idle"
  /\ \E files \in DistinctSeqsUpTo(InputFiles, MaxInputFiles),
        jar_file \in BOOLEAN, srcjar_path \in BOOLEAN, is_dir \in BOOLEAN :
       \E output_names \in OutputNamesFor(files) :
         /\ ~(jar_file /\ srcjar_path)
         /\ jar_file => WithoutKotlin(files) = files
         /\ is_dir => output_names = <<>>
         /\ options' = [args_input_files |-> files,
                        input_files |-> GeneratedInputs(files),
                        jar_file |-> jar_file,
                        srcjar_path |-> srcjar_path,
                        output_names |-> output_names]
         /\ IF is_dir
            THEN Uncaught("TypeError")
            ELSE pc' = "parse" /\ UNCHANGED exit_status
  /\ UNCHANGED <<resolverVars, mangleVars, nativesVars, parseVars, jni_objs,
                 written_headers, written_srcjar>>

\* lines 1131-1138 and 1141-1143: the next input is parsed
ParseInput ==
  /\ pc = "parse"
  /\ Len(jni_objs) < Len(options.input_files)
  /\ LET file == options.input_files[Len(jni_objs) + 1]
     IN IF Raises(file)
        THEN Exit1 /\ UNCHANGED jni_objs
        ELSE IF file.raises # ""
        THEN Uncaught(file.raises) /\ UNCHANGED jni_objs
        ELSE /\ jni_objs' = Append(jni_objs, file)
             /\ UNCHANGED <<pc, exit_status>>
  /\ UNCHANGED <<resolverVars, mangleVars, nativesVars, parseVars, options,
                 written_headers, written_srcjar>>

\* every input is parsed: the checks follow, for source files only
FinishParsing ==
  /\ pc = "parse"
  /\ Len(jni_objs) = Len(options.input_files)
  /\ pc' = IF options.jar_file THEN "write_headers" ELSE "check_not_empty"
  /\ UNCHANGED <<resolverVars, mangleVars, nativesVars, parseVars, options,
                 jni_objs, written_headers, written_srcjar, exit_status>>

_CheckNotEmpty ==
  /\ pc = "check_not_empty"
  /\ IF has_empty(jni_objs)
     THEN Exit1
     ELSE pc' = "check_same_module" /\ UNCHANGED exit_status
  /\ UNCHANGED <<resolverVars, mangleVars, nativesVars, parseVars, options,
                 jni_objs, written_headers, written_srcjar>>

_CheckSameModule ==
  /\ pc = "check_same_module"
  /\ IF Cardinality(files_by_module(jni_objs)) > 1
     THEN Exit1
     ELSE pc' = "write_headers" /\ UNCHANGED exit_status
  /\ UNCHANGED <<resolverVars, mangleVars, nativesVars, parseVars, options,
                 jni_objs, written_headers, written_srcjar>>

\* lines 1146-1150: the next pair of zip(jni_objs, options.output_names) is
\* written, the content of the object under the name; zip raises TypeError
\* for None
WriteHeader ==
  /\ pc = "write_headers"
  /\ IF options.output_names = <<>>
     THEN Uncaught("TypeError") /\ UNCHANGED written_headers
     ELSE /\ Len(written_headers) < HeadersToWrite(jni_objs, options.output_names[1])
          /\ written_headers' =
               Append(written_headers,
                      [name |-> options.output_names[1][Len(written_headers) + 1],
                       content |-> jni_objs[Len(written_headers) + 1].filename])
          /\ UNCHANGED <<pc, exit_status>>
  /\ UNCHANGED <<resolverVars, mangleVars, nativesVars, parseVars, options,
                 jni_objs, written_srcjar>>

FinishHeaders ==
  /\ pc = "write_headers"
  /\ options.output_names # <<>>
  /\ Len(written_headers) = HeadersToWrite(jni_objs, options.output_names[1])
  /\ IF options.srcjar_path
     THEN pc' = "write_srcjar" /\ UNCHANGED exit_status
     ELSE pc' = "done" /\ exit_status' = 0
  /\ UNCHANGED <<resolverVars, mangleVars, nativesVars, parseVars, options,
                 jni_objs, written_headers, written_srcjar>>

\* lines 1153-1167: the srcjar, empty when no object has proxy natives
WriteSrcJar ==
  /\ pc = "write_srcjar"
  /\ written_srcjar' =
       <<[i \in 1..Len(WithProxyNatives(jni_objs)) |->
            WithProxyNatives(jni_objs)[i].filename]>>
  /\ pc' = "done"
  /\ exit_status' = 0
  /\ UNCHANGED <<resolverVars, mangleVars, nativesVars, parseVars, options,
                 jni_objs, written_headers>>

GenNext ==
  \/ StartGeneration
  \/ ParseInput
  \/ FinishParsing
  \/ _CheckNotEmpty
  \/ _CheckSameModule
  \/ WriteHeader
  \/ FinishHeaders
  \/ WriteSrcJar

GenSpec == Init /\ [][GenNext]_vars

NothingWritten == written_headers = <<>> /\ written_srcjar = <<>>

SomeInputRaises ==
  \E i \in 1..Len(options.input_files) :
    options.input_files[i].raises \in {"ParseError", "SyntaxError"}

SomeCheckFails ==
  /\ ~options.jar_file
  /\ \/ \E i \in 1..Len(options.input_files) :
          ~options.input_files[i].has_methods
     \/ \E i, j \in 1..Len(options.input_files) :
          /\ options.input_files[i].proxy_natives
          /\ options.input_files[j].proxy_natives
          /\ options.input_files[i].module_name # options.input_files[j].module_name

\* C13: DoGeneration parses and checks every input before it writes
\* anything: when an input raises ParseError or SyntaxError, or the not-empty
\* or the same-module check fails, nothing is ever written, for any input,
\* and the run ends with exit status 1.
C13_NoPartialSuccess ==
  /\ (SomeInputRaises \/ SomeCheckFails) =>
       /\ NothingWritten
       /\ pc \notin {"write_headers", "write_srcjar", "done"}
       /\ pc = "exit" => exit_status = 1
  /\ ~NothingWritten =>
       /\ Len(jni_objs) = Len(options.input_files)
       /\ exit_status # 1
  /\ exit_status = 1 => NothingWritten

\* two inputs parsed, the third one raised: the run is over, nothing written
C13_Witness ==
  /\ Len(options.input_files) = 3
  /\ Len(jni_objs) = 2
  /\ options.input_files[3].raises = "ParseError"
  /\ options.srcjar_path
  /\ pc = "exit"
  /\ exit_status = 1
  /\ NothingWritten

----------------------------------------------------------------------------
(* parse.py: _remove_comments *)

\* the first position at or after i where sub starts in s, 0 when none
FindFrom(s, sub, i) ==
  LET hits == {k \in i..(Len(s) - Len(sub) + 1) :
                 SubSeq(s, k, k + Len(sub) - 1) = sub}
  IN IF hits = {} THEN 0 ELSE Min(hits)

\* mutant: the end of the line is taken with the comment
LineCommentEnd_WithNewline(s) ==
  IF HasChar(s, "\n") THEN IndexOf(s, "\n") ELSE Len(s)

\* '//.*?$' with re.MULTILINE: the last position of the match that starts
\* at the head of s, which ends before the first newline
LineCommentEnd(s) ==
  IF HasChar(s, "\n") THEN IndexOf(s, "\n") - 1 ELSE Len(s)

\* '/\*.*?\*/' with re.DOTALL: the last position of the match that starts at
\* the head of s, 0 when the comment is not closed
BlockCommentEnd(s) ==
  LET close == FindFrom(s, <<"*", "/">>, 3)
  IN IF close = 0 THEN 0 ELSE close + 1

\* q(?:\\.|[^\\q])*q for the quote q: the position of the closing quote of
\* the literal that starts at the head of s, looked for from i on; 0 when the
\* literal is not closed
RECURSIVE LiteralEnd(_, _, _)
LiteralEnd(s, q, i) ==
  IF i > Len(s) THEN 0
  ELSE IF s[i] = q THEN i
  ELSE IF s[i] = "\\" THEN (IF i + 1 > Len(s) THEN 0 ELSE LiteralEnd(s, q, i + 2))
  ELSE LiteralEnd(s, q, i + 1)

\* _COMMENT_REMOVER_REGEX.sub(replacer, contents): at each position the
\* alternatives are tried in the order of the pattern; a comment is replaced
\* by nothing, a literal by itself, and any other character is kept
RECURSIVE _remove_comments(_)
_remove_comments(s) ==
  IF Len(s) = 0 THEN <<>>
  ELSE IF StartsWith(s, <<"/", "/">>)
       THEN _remove_comments(SubSeq(s, LineCommentEnd(s) + 1, Len(s)))
  ELSE IF StartsWith(s, <<"/", "*">>) /\ BlockCommentEnd(s) # 0
       THEN _remove_comments(SubSeq(s, BlockCommentEnd(s) + 1, Len(s)))
  ELSE IF s[1] \in {"'", "\""} /\ LiteralEnd(s, s[1], 2) # 0
       THEN SubSeq(s, 1, LiteralEnd(s, s[1], 2))
              \o _remove_comments(SubSeq(s, LiteralEnd(s, s[1], 2) + 1, Len(s)))
  ELSE <<s[1]>> \o _remove_comments(Tail(s))

----------------------------------------------------------------------------
(* Inputs of _remove_comments: Java texts, token by token *)

Token(kind, text) == [kind |-> kind, text |-> text]

k_code == Token("code", <<"a">>)
k_newline == Token("code", <<"\n">>)
k_divide == Token("code", <<"/">>)
\* //"
k_line_comment == Token("line_comment", <<"/", "/", "\"">>)
\* /*'//*/
k_block_comment == Token("block_comment", <<"/", "*", "'", "/", "/", "*", "/">>)
\* "//n"
k_string_slashes == Token("literal", <<"\"", "/", "/", "n", "\"">>)
\* "/*"
k_string_open == Token("literal", <<"\"", "/", "*", "\"">>)
\* "*/\""
k_string_close == Token("literal", <<"\"", "*", "/", "\\", "\"", "\"">>)
\* '"'
k_char_quote == Token("literal", <<"'", "\"", "'">>)
\* '\''
k_char_escaped == Token("literal", <<"'", "\\", "'", "'">>)

Tokens ==
  {k_code, k_newline, k_divide, k_line_comment, k_block_comment,
   k_string_slashes, k_string_open, k_string_close, k_char_quote,
   k_char_escaped}

\* the token sequences that are the tokens of their own text: a // comment
\* runs to the end of its line, and a '/' followed by a comment would start
\* a comment itself
IsTokenized(tokens) ==
  \A i \in 1..(Len(tokens) - 1) :
    /\ tokens[i].kind = "line_comment" => tokens[i + 1] = k_newline
    /\ tokens[i] = k_divide => tokens[i + 1].text[1] # "/"

TokenTexts == {tokens \in SeqsUpTo(Tokens, MaxTokens) : IsTokenized(tokens)}

TextOf(tokens) == Concat([i \in 1..Len(tokens) |-> tokens[i].text])

IsComment(token) == token.kind \in {"line_comment", "block_comment"}

WithoutCommentTokens(tokens) ==
  TextOf(SelectSeq(tokens, LAMBDA t : ~IsComment(t)))

----------------------------------------------------------------------------
(* Text actions: one call on one text *)

RemoveComments ==
  /\ parsed = NoCall
  /\ \E tokens \in TokenTexts :
       /\ parse_in' = tokens
       /\ parsed' = [op |-> "_remove_comments",
                     out |-> _remove_comments(TextOf(tokens))]
  /\ UNCHANGED <<resolverVars, mangleVars, nativesVars, genVars>>

----------------------------------------------------------------------------
(* parse.py: remove_generics *)

\* mutant: the group runs to the first '>', over any '<'
GroupEnd_OverOpening(s) ==
  LET stops == {k \in 2..Len(s) : s[k] \in {">", "\n"}}
  IN IF stops = {} THEN 0
     ELSE IF s[Min(stops)] = ">" THEN Min(stops) ELSE 0

\* _GENERICS_REGEX '<[^<>\n]*>': the last position of the match that starts
\* at the head of s, 0 when there is none
GroupEnd(s) ==
  LET stops == {k \in 2..Len(s) : s[k] \in {"<", ">", "\n"}}
  IN IF stops = {} THEN 0
     ELSE IF s[Min(stops)] = ">" THEN Min(stops) ELSE 0

\* _GENERICS_REGEX.sub('', value): one pass
RECURSIVE GenericsSub(_)
GenericsSub(s) ==
  IF Len(s) = 0 THEN <<>>
  ELSE IF s[1] = "<" /\ GroupEnd(s) # 0
       THEN GenericsSub(SubSeq(s, GroupEnd(s) + 1, Len(s)))
       ELSE <<s[1]>> \o GenericsSub(Tail(s))

----------------------------------------------------------------------------
(* Inputs of remove_generics: texts, piece by piece *)

g_Map == <<"M","a","p">>
g_String_List == <<"<">> \o s_String \o <<",", " ">> \o s_List
g_Integer == <<"<","I","n","t","e","g","e","r">>
g_close == <<">">>
g_newline == <<"\n">>

Pieces == {g_Map, g_String_List, g_Integer, g_close, g_newline}

PieceTexts == SeqsUpTo(Pieces, MaxPieces)

----------------------------------------------------------------------------
(* remove_generics, pass by pass *)

StartRemoveGenerics ==
  /\ parsed = NoCall
  /\ \E pieces \in PieceTexts :
       /\ parse_in' = pieces
       /\ parsed' = [op |-> "remove_generics", value |-> Concat(pieces),
                     passes |-> 0, returned |-> FALSE]
  /\ UNCHANGED <<resolverVars, mangleVars, nativesVars, genVars>>

\* lines 71-75: one turn of the 'while True'
RemoveGenericsPass ==
  /\ parsed.op = "remove_generics"
  /\ ~parsed.returned
  /\ LET ret_ == GenericsSub(parsed.value)
     IN parsed' = [parsed EXCEPT !.value = ret_,
                                 !.passes = @ + 1,
                                 !.returned = (Len(ret_) = Len(parsed.value))]
  /\ UNCHANGED <<resolverVars, mangleVars, nativesVars, parse_in, genVars>>

TextNext ==
  \/ RemoveComments
  \/ StartRemoveGenerics
  \/ RemoveGenericsPass

TextSpec == Init /\ [][TextNext]_vars

\* C14: _remove_comments removes every // comment up to the end of its line
\* and every /* */ comment that starts outside a literal, and leaves every
\* string and character literal as it is, also one that holds //, /* or */.
C14_CommentsRemovedLiteralsKept ==
  parsed.op = "_remove_comments" =>
    parsed.out = WithoutCommentTokens(parse_in)

\* a literal holding // and a real // comment on the same line
C14_Witness ==
  /\ parsed.op = "_remove_comments"
  /\ parse_in = <<k_string_slashes, k_code, k_line_comment>>
  /\ parsed.out = k_string_slashes.text \o k_code.text

RemoveGenericsReturned ==
  parsed.op = "remove_generics" /\ parsed.returned

\* every pass before the last one removes a group, of two characters at least
PassesShorten ==
  parsed.op = "remove_generics" =>
    Len(parsed.value) + 2 * parsed.passes <= Len(Concat(parse_in)) + 2

\* an innermost '<' ... '>' pair, with none of the characters of stop between
GroupRemains(value, stop) ==
  \E i, j \in 1..Len(value) :
    /\ i < j
    /\ value[i] = "<"
    /\ value[j] = ">"
    /\ \A k \in (i + 1)..(j - 1) : value[k] \notin stop

MapExample ==
  parse_in = <<g_Map, g_String_List, g_Integer, g_close, g_close>>

\* C15 (as claimed): remove_generics terminates, every pass shortening the
\* text or ending the loop; its result holds no '<...>' group any more,
\* 'Map<String, List<Integer>>' becomes 'Map', and a second application
\* changes nothing.
C15_NoGroupRemains ==
  /\ PassesShorten
  /\ RemoveGenericsReturned =>
       /\ ~GroupRemains(parsed.value, {"<", ">"})
       /\ GenericsSub(parsed.value) = parsed.value
       /\ MapExample => parsed.value = g_Map

\* C15 (amended): the same, for the groups that are on one line: a '<' and
\* the '>' that closes it with a line end between them are left in the text.
C15_NoGroupRemainsOnOneLine ==
  /\ PassesShorten
  /\ RemoveGenericsReturned =>
       /\ ~GroupRemains(parsed.value, {"<", ">", "\n"})
       /\ GenericsSub(parsed.value) = parsed.value
       /\ MapExample => parsed.value = g_Map

\* 'Map<String, List<Integer>>': two passes remove a layer each, the third
\* one finds nothing to remove
C15_Witness ==
  /\ RemoveGenericsReturned
  /\ MapExample
  /\ parsed.value = g_Map
  /\ parsed.passes = 3

----------------------------------------------------------------------------
(* parse.py: one Java file *)

s_D == <<"D">>
s_p ==
  <<"p">>
s_x_prefix ==
  <<"x">>
s_Natives ==
  <<"N","a","t","i","v","e","s">>
s_n ==
  <<"n">>
s_m ==
  <<"m">>
s_C_java ==
  <<"C",".","j","a","v","a">>
s_d_C_java ==
  <<"d","/","C",".","j","a","v","a">>
msg_no_package ==
  <<"U","n","a","b","l","e"," ","t","o"," ","f","i","n","d"," ","\"","p","a",
    "c","k","a","g","e","\""," ","l","i","n","e">>
msg_no_classes ==
  <<"N","o"," ","c","l","a","s","s","e","s"," ","f","o","u","n","d",".">>
msg_found_class ==
  <<"F","o","u","n","d"," ","c","l","a","s","s"," ","\"">>
msg_but_expected ==
  <<"\""," ","b","u","t"," ","e","x","p","e","c","t","e","d"," ","\"">>
msg_multiple_interfaces ==
  <<"M","u","l","t","i","p","l","e"," ","@","N","a","t","i","v","e","M","e",
    "t","h","o","d"," ","i","n","t","e","r","f","a","c","e","s"," ","i","n",
    " ","o","n","e"," ","c","l","a","s","s"," ","i","s"," ","n","o","t"," ",
    "s","u","p","p","o","r","t","e","d",".">>
msg_no_methods ==
  <<"F","o","u","n","d"," ","n","o"," ","m","e","t","h","o","d","s"," ","w",
    "i","t","h","i","n"," ","@","N","a","t","i","v","e","M","e","t","h","o",
    "d"," ","i","n","t","e","r","f","a","c","e",".">>
msg_multiple_namespaces ==
  <<"F","o","u","n","d"," ","m","u","l","t","i","p","l","e"," ","@","J","N",
    "I","N","a","m","e","s","p","a","c","e"," ","a","t","t","r","i","b","u",
    "t","e","s",".">>
msg_could_not_parse ==
  <<"c","o","u","l","d"," ","n","o","t"," ","p","a","r","s","e"," ","@","C",
    "a","l","l","e","d","B","y","N","a","t","i","v","e"," ","m","e","t","h",
    "o","d"," ","s","i","g","n","a","t","u","r","e">>
msg_when_parsing ==
  <<" ","(","w","h","e","n"," ","p","a","r","s","i","n","g"," ">>

\* None
None == [is_none |-> TRUE]

\* raise SyntaxError(msg)
SyntaxError(msg) == [err |-> "SyntaxError", val |-> <<>>, msg |-> msg]

\* what findall and finditer find in the text of a file: the package of the
\* 'package' line (<<>> without one), the names of the class declarations
\* that _CLASSES_REGEX matches, the @NativeMethods interfaces, the
\* values of the @JNINamespace annotations, and the declarations of natives
\* and called-by-natives with the text between them
JavaFile(filename, package, classes, interfaces, namespaces, chunks) ==
  [filename |-> filename, package |-> package, classes |-> classes,
   interfaces |-> interfaces, namespaces |-> namespaces, chunks |-> chunks]

\* os.path.basename
basename(path) == SubSeq(path, LastIndexOf(path, "/") + 1, Len(path))

\* os.path.splitext(...)[0]: the extension starts at the last dot that has a
\* character other than a dot before it
splitext_root(name) ==
  LET dot == LastIndexOf(name, ".")
  IN IF dot > 1 /\ \E k \in 1..(dot - 1) : name[k] # "."
     THEN SubSeq(name, 1, dot - 1)
     ELSE name

\* java_types.JavaClass.name: the class's name without its package
JavaClass_name(java_class) ==
  SubSeq(java_class, LastIndexOf(java_class, "/") + 1, Len(java_class))

\* java_types.JavaClass.make_nested
make_nested(java_class, name) == java_class \o <<"$">> \o name

\* java_types.JavaClass.make_prefixed
make_prefixed(java_class, prefix) ==
  ReplaceChar(prefix, ".", "/") \o <<"/">> \o java_class

\* _parse_package
_parse_package(file) ==
  IF file.package = <<>> THEN SyntaxError(msg_no_package)
  ELSE Ok(file.package)

\* a match of _CLASSES_REGEX, lines 88-92: the text of the line before the
\* declaration and the name declared
ClassMatch(preamble, class_name) ==
  [preamble |-> preamble, class_name |-> class_name]

\* preamble.count('"')
CountQuotes(preamble) ==
  Cardinality({k \in 1..Len(preamble) : preamble[k] = "\""})

\* mutant: every match is a declaration
AcceptedNames_All(matches) ==
  [i \in 1..Len(matches) |-> matches[i].class_name]

\* _parse_java_classes, lines 100-104: the names of the matches that are not
\* skipped
AcceptedNames(matches) ==
  LET kept == SelectSeq(matches, LAMBDA m : CountQuotes(m.preamble) % 2 = 0)
  IN [i \in 1..Len(kept) |-> kept[i].class_name]

\* _parse_java_classes
_parse_java_classes(file) ==
  LET package == _parse_package(file)
      class_names == AcceptedNames(file.classes)
  IN IF package.err # "" THEN package
     ELSE IF Len(class_names) = 0 THEN SyntaxError(msg_no_classes)
     ELSE LET outer_class == ReplaceChar(package.val, ".", "/") \o <<"/">>
                               \o class_names[1]
          IN Ok([outer_class |-> outer_class,
                 nested_classes |->
                   [i \in 1..(Len(class_names) - 1) |->
                      make_nested(outer_class, class_names[i + 1])]])

\* mutant: the prefix is applied before the name is compared
NameToCompare_Prefixed(outer_class, package_prefix) ==
  IF package_prefix # <<>>
  THEN make_prefixed(JavaClass_name(outer_class), package_prefix)
  ELSE JavaClass_name(outer_class)

\* _do_parse, line 264: outer_class.name, taken before line 268 applies the
\* prefix
NameToCompare(outer_class, package_prefix) == JavaClass_name(outer_class)

\* _do_parse, lines 261-270: the classes of the file, or the error
ClassesOfFile(file, package_prefix) ==
  LET classes == _parse_java_classes(file)
      expected_name == splitext_root(basename(file.filename))
  IN IF classes.err # "" THEN classes
     ELSE IF NameToCompare(classes.val.outer_class, package_prefix) # expected_name
     THEN SyntaxError(msg_found_class \o JavaClass_name(classes.val.outer_class)
                        \o msg_but_expected \o expected_name \o <<"\"", ".">>)
     ELSE IF package_prefix # <<>>
     THEN Ok([outer_class |-> make_prefixed(classes.val.outer_class, package_prefix),
              nested_classes |->
                [i \in 1..Len(classes.val.nested_classes) |->
                   make_prefixed(classes.val.nested_classes[i], package_prefix)]])
     ELSE classes

\* _PUBLIC_REGEX.sub('', preamble)
RECURSIVE RemovePublic(_, _)
RemovePublic(value, after_word_char) ==
  IF Len(value) = 0 THEN <<>>
  ELSE IF /\ ~after_word_char
          /\ StartsWith(value, s_public)
          /\ Len(value) > Len(s_public)
          /\ IsSpace(value[Len(s_public) + 1])
       THEN RemovePublic(SubSeq(value, Len(s_public) + 2, Len(value)), FALSE)
       ELSE <<value[1]>> \o RemovePublic(Tail(value), value[1] \in IdentChars)

\* annotations.get('NativeClassQualifiedName'): the quoted value of the
\* annotation, <<>> (None) without it
NativeClassQualifiedNameOf(preamble) ==
  LET opening == <<"@">> \o s_NativeClassQualifiedName \o <<"(", "\"">>
      at == FindFrom(preamble, opening, 1)
      from == at + Len(opening)
      close == FindFrom(preamble, <<"\"">>, from)
  IN IF at = 0 \/ close = 0 THEN <<>>
     ELSE SubSeq(preamble, from, close - 1)

\* a match of _EXTRACT_METHODS_REGEX in the body of an interface
MethodMatch(preamble, name, params_part) ==
  [preamble |-> preamble, name |-> name, params_part |-> params_part]

\* a match of _NATIVE_PROXY_EXTRACTION_REGEX: module_name and visibility are
\* <<>> when absent
InterfaceMatch(interface_name, visibility, module_name, methods) ==
  [interface_name |-> interface_name, visibility |-> visibility,
   module_name |-> module_name, methods |-> methods]

\* _parse_proxy_natives, lines 206-217
ParsedMethod(m) ==
  LET preamble == RemovePublic(m.preamble, FALSE)
      params == parse_param_list(m.params_part)
      return_type == parse_type(preamble)
  IN IF params.err # "" THEN params
     ELSE IF return_type.err # "" THEN return_type
     ELSE Ok([name |-> m.name, return_type |-> return_type.val,
              params |-> params.val,
              native_class_name |-> NativeClassQualifiedNameOf(preamble)])

\* the order of ParsedMethod: its fields in the order of their declaration
ParsedMethodKey(x) ==
  CodesOf(x.name) \o TypeKey(x.return_type)
    \o Concat([i \in 1..Len(x.params) |->
                 TypeKey(x.params[i].java_type) \o CodesOf(x.params[i].name)])
    \o <<0>> \o CodesOf(x.native_class_name)

RECURSIVE InsertParsedMethod(_, _)
InsertParsedMethod(sorted, x) ==
  IF Len(sorted) = 0 THEN <<x>>
  ELSE IF KeyLess(ParsedMethodKey(x), ParsedMethodKey(sorted[1]))
       THEN <<x>> \o sorted
       ELSE <<sorted[1]>> \o InsertParsedMethod(Tail(sorted), x)

\* mutant: the methods stay in the order of the interface
SortParsedMethods_Unsorted(methods) == methods

\* ret.methods.sort()
RECURSIVE SortParsedMethods(_)
SortParsedMethods(methods) ==
  IF Len(methods) = 0 THEN <<>>
  ELSE InsertParsedMethod(SortParsedMethods(SubSeq(methods, 1, Len(methods) - 1)),
                          methods[Len(methods)])

\* _parse_proxy_natives
_parse_proxy_natives(matches) ==
  IF Len(matches) = 0 THEN Ok(None)
  ELSE IF Len(matches) > 1 THEN SyntaxError(msg_multiple_interfaces)
  ELSE LET match == matches[1]
       IN The({IF \E i \in 1..Len(built) : built[i].err # ""
               THEN Raise("SyntaxError")
               ELSE IF Len(built) = 0 THEN SyntaxError(msg_no_methods)
               ELSE Ok([interface_name |-> match.interface_name,
                        visibility |-> match.visibility,
                        module_name |-> match.module_name,
                        methods |-> SortParsedMethods(
                                      [i \in 1..Len(built) |-> built[i].val])]) :
                 built \in {[i \in 1..Len(match.methods) |->
                               ParsedMethod(match.methods[i])]}})

\* mutant: of several values the first one is returned
_parse_jni_namespace_First(m) ==
  IF Len(m) = 0 THEN Ok(<<>>) ELSE Ok(m[1])

\* _parse_jni_namespace, on what _JNI_NAMESPACE_REGEX.findall found
_parse_jni_namespace(m) ==
  IF Len(m) = 0 THEN Ok(<<>>)
  ELSE IF Len(m) > 1 THEN SyntaxError(msg_multiple_namespaces)
  ELSE Ok(m[1])

\* mutant: the namespace is parsed after the called-by-natives
ParsedFile_NamespaceLast(file, outer_class) ==
  The({LET has_proxy == parsed_proxy_natives.val # None
       IN IF parsed_proxy_natives.err # "" THEN parsed_proxy_natives
          ELSE IF non_proxy_natives.err # "" THEN non_proxy_natives
          ELSE IF extracted.err = "ParseError"
          THEN [err |-> "ParseError", val |-> extracted.val, msg |-> msg_could_not_parse]
          ELSE IF extracted.err # "" THEN extracted
          ELSE IF jni_namespace.err # "" THEN jni_namespace
          ELSE Ok([filename |-> file.filename,
                   jni_namespace |-> jni_namespace.val,
                   java_class |-> outer_class,
                   proxy_methods |-> IF has_proxy THEN parsed_proxy_natives.val.methods
                                     ELSE <<>>,
                   non_proxy_natives |-> non_proxy_natives.val,
                   called_by_natives |-> extracted.val,
                   module_name |-> IF has_proxy THEN parsed_proxy_natives.val.module_name
                                   ELSE <<>>,
                   proxy_interface |->
                     IF has_proxy
                     THEN make_nested(outer_class, parsed_proxy_natives.val.interface_name)
                     ELSE <<>>,
                   proxy_visibility |-> IF has_proxy
                                        THEN parsed_proxy_natives.val.visibility
                                        ELSE <<>>]) :
         parsed_proxy_natives \in {_parse_proxy_natives(file.interfaces)},
         jni_namespace \in {_parse_jni_namespace(file.namespaces)},
         non_proxy_natives \in {ExtractNatives(NativeMatchesOf(file.chunks))},
         extracted \in {ExtractCalledByNatives(file.chunks)}})

\* _do_parse, lines 278-302, once the resolver of the file is there
ParsedFile(file, outer_class) ==
  The({LET has_proxy == parsed_proxy_natives.val # None
       IN IF parsed_proxy_natives.err # "" THEN parsed_proxy_natives
          ELSE IF jni_namespace.err # "" THEN jni_namespace
          ELSE IF non_proxy_natives.err # "" THEN non_proxy_natives
          ELSE IF extracted.err = "ParseError"
          THEN [err |-> "ParseError", val |-> extracted.val, msg |-> msg_could_not_parse]
          ELSE IF extracted.err # "" THEN extracted
          ELSE Ok([filename |-> file.filename,
                   jni_namespace |-> jni_namespace.val,
                   java_class |-> outer_class,
                   proxy_methods |-> IF has_proxy THEN parsed_proxy_natives.val.methods
                                     ELSE <<>>,
                   non_proxy_natives |-> non_proxy_natives.val,
                   called_by_natives |-> extracted.val,
                   module_name |-> IF has_proxy THEN parsed_proxy_natives.val.module_name
                                   ELSE <<>>,
                   proxy_interface |->
                     IF has_proxy
                     THEN make_nested(outer_class, parsed_proxy_natives.val.interface_name)
                     ELSE <<>>,
                   proxy_visibility |-> IF has_proxy
                                        THEN parsed_proxy_natives.val.visibility
                                        ELSE <<>>]) :
         parsed_proxy_natives \in {_parse_proxy_natives(file.interfaces)},
         jni_namespace \in {_parse_jni_namespace(file.namespaces)},
         non_proxy_natives \in {ExtractNatives(NativeMatchesOf(file.chunks))},
         extracted \in {ExtractCalledByNatives(file.chunks)}})

\* parse_java_file, lines 308-310: a SyntaxError leaves with the name of the
\* file added to its message
WhenParsing(outcome, filename) ==
  IF outcome.err \in {"SyntaxError", "ParseError"}
  THEN [err |-> outcome.err, val |-> outcome.val,
        msg |-> (IF "msg" \in DOMAIN outcome THEN outcome.msg ELSE <<>>)
                  \o msg_when_parsing \o filename \o <<")">>]
  ELSE outcome

----------------------------------------------------------------------------
(* Inputs: Java files *)

n_f ==
  MethodMatch(s_int, s_f, s_long \o <<" ">> \o s_native \o s_Ptr)

n_g ==
  MethodMatch(<<"@">> \o s_NativeClassQualifiedName \o <<"(", "\"">> \o s_Q
                \o <<"\"", ")", "\n">> \o s_public \o <<" ">> \o s_void,
              s_g, <<>>)

i_Natives == InterfaceMatch(s_Natives, <<>>, <<>>, <<n_g, n_f>>)
i_Natives_m == InterfaceMatch(s_Natives, s_public, s_m, <<n_f>>)
i_empty == InterfaceMatch(s_Natives, <<>>, <<>>, <<>>)

Filenames == {s_C_java, s_d_C_java, s_D_java}
Packages == {s_p, <<>>}
\* declarations: 'class C', 'public class D' (the modifier is not of the
\* preamble), '  class I', '@A("x") class C', and a match that starts inside
\* the text of an annotation, '@A("the class D'
c_C == ClassMatch(<<>>, s_C)
c_D == ClassMatch(<<>>, s_D)
c_I == ClassMatch(<<" ", " ">>, s_I)
c_C_annotated == ClassMatch(<<"@", "A", "(", "\"", "x", "\"", ")", " ">>, s_C)
c_D_quoted == ClassMatch(<<"@", "A", "(", "\"", "t", "h", "e", " ">>, s_D)

ClassMatches ==
  {<<c_C>>, <<c_D>>, <<c_C, c_I>>, <<>>, <<c_D_quoted>>,
   <<c_D_quoted, c_C_annotated, c_I>>}
Interfaces == {<<>>, <<i_Natives>>, <<i_Natives_m>>, <<i_Natives, i_Natives_m>>, <<i_empty>>}
Namespaces == {<<>>, <<s_n>>, << <<>> >>, <<s_n, s_m>>, <<s_n, s_n>>}
ChunksOfFile ==
  {<<>>, <<NativeChunk(m_nativeFoo_int), NativeChunk(m_nativeBazForTesting)>>,
   <<x_field, x_newline>>}
PackagePrefixes == {<<>>, s_x_prefix}

JavaFiles ==
  {JavaFile(filename, package, classes, interfaces, namespaces, chunks) :
     filename \in Filenames, package \in Packages, classes \in ClassMatches,
     interfaces \in Interfaces, namespaces \in Namespaces,
     chunks \in ChunksOfFile}

----------------------------------------------------------------------------
(* File actions: one call on one file *)

\* parse_java_file, up to line 276: the classes of the file are found and
\* the resolver of the file is made
ReadJavaFile ==
  /\ parsed = NoCall
  /\ \E file \in JavaFiles, package_prefix \in PackagePrefixes :
       \E classes \in {ClassesOfFile(file, package_prefix)} :
          /\ parse_in' = [file |-> file, package_prefix |-> package_prefix]
          /\ IF classes.err # ""
             THEN /\ parsed' = [op |-> "parse_java_file",
                                out |-> WhenParsing(classes, file.filename)]
                  /\ UNCHANGED resolverVars
             ELSE /\ fully_qualified_class' = classes.val.outer_class
                  /\ imports' = <<>>
                  /\ inner_classes' = classes.val.nested_classes
                  /\ UNCHANGED ret
                  /\ parsed' = [op |-> "_do_parse"]
  /\ UNCHANGED <<mangleVars, nativesVars, genVars>>

\* parse_java_file, from line 278 on: the extraction, which resolves with the
\* resolver of the file
ExtractJavaFile ==
  /\ parsed.op = "_do_parse"
  /\ \E outcome \in {ParsedFile(parse_in.file, fully_qualified_class)} :
       parsed' = [op |-> "parse_java_file",
                  out |-> WhenParsing(outcome, parse_in.file.filename)]
  /\ UNCHANGED <<resolverVars, mangleVars, nativesVars, parse_in, genVars>>

\* _parse_proxy_natives, called on its own
ParseProxyNatives ==
  /\ parsed = NoCall
  /\ \E matches \in Interfaces :
       /\ parse_in' = matches
       /\ parsed' = [op |-> "_parse_proxy_natives",
                     out |-> _parse_proxy_natives(matches)]
  /\ UNCHANGED <<resolverVars, mangleVars, nativesVars, genVars>>

\* _parse_jni_namespace, called on its own
ParseJniNamespace ==
  /\ parsed = NoCall
  /\ \E m \in Namespaces :
       /\ parse_in' = m
       /\ parsed' = [op |-> "_parse_jni_namespace",
                     out |-> _parse_jni_namespace(m)]
  /\ UNCHANGED <<resolverVars, mangleVars, nativesVars, genVars>>

FileNext ==
  \/ ReadJavaFile
  \/ ExtractJavaFile
  \/ ParseProxyNatives
  \/ ParseJniNamespace

FileSpec == Init /\ [][FileNext]_vars

ParsedJavaFile == parsed.op = "parse_java_file"

FoundClasses == AcceptedNames(parse_in.file.classes)

FoundClass == FoundClasses[1]

ExpectedName == splitext_root(basename(parse_in.file.filename))

\* the first class found is not the one the file's name announces
NameMismatch ==
  /\ ParsedJavaFile
  /\ parse_in.file.package # <<>>
  /\ Len(FoundClasses) > 0
  /\ FoundClass # ExpectedName

\* C16: when the simple name of the first class found in a file differs
\* from the file's base name, parse_java_file raises a SyntaxError whose
\* message names the class found, the name expected and the file, and no
\* ParsedFile is returned; the name compared is the one the class has before
\* the package prefix is applied, so a file whose class has the expected
\* name is not refused for its prefix.
C16_NameMismatchRaises ==
  /\ NameMismatch =>
       /\ parsed.out.err = "SyntaxError"
       /\ HasSubstr(parsed.out.msg, msg_found_class \o FoundClass \o <<"\"">>)
       /\ HasSubstr(parsed.out.msg, msg_but_expected \o ExpectedName \o <<"\"">>)
       /\ HasSubstr(parsed.out.msg, parse_in.file.filename)
  /\ (ParsedJavaFile /\ ~NameMismatch /\ parsed.out.err # "") =>
       ~HasSubstr(parsed.out.msg, msg_but_expected)

\* class D found in d/C.java, read with a package prefix
C16_Witness ==
  /\ NameMismatch
  /\ parse_in.file.filename = s_d_C_java
  /\ FoundClass = s_D
  /\ parse_in.package_prefix = s_x_prefix
  /\ parsed.out.err = "SyntaxError"
  /\ HasSubstr(parsed.out.msg, msg_found_class \o s_D \o msg_but_expected \o s_C)

ParsedProxyNatives == parsed.op = "_parse_proxy_natives"

ParsedMethodsNondecreasing(methods) ==
  \A i, j \in 1..Len(methods) :
    i < j => ~KeyLess(ParsedMethodKey(methods[j]), ParsedMethodKey(methods[i]))

\* C17: _parse_proxy_natives returns None for a text without @NativeMethods
\* interface, raises SyntaxError for a text with more than one and for a
\* single interface without methods; what it returns otherwise comes from
\* the one interface of the text and holds its methods, one at least, in
\* sorted order.
C17_ProxyInterfaceOutcome ==
  ParsedProxyNatives =>
    /\ Len(parse_in) = 0 => parsed.out = Ok(None)
    /\ Len(parse_in) > 1 => parsed.out.err = "SyntaxError"
    /\ (Len(parse_in) = 1 /\ Len(parse_in[1].methods) = 0) =>
         parsed.out.err = "SyntaxError"
    /\ (parsed.out.err = "" /\ parsed.out.val # None) =>
         /\ Len(parse_in) = 1
         /\ parsed.out.val.interface_name = parse_in[1].interface_name
         /\ Len(parsed.out.val.methods) = Len(parse_in[1].methods)
         /\ Len(parsed.out.val.methods) >= 1
         /\ ParsedMethodsNondecreasing(parsed.out.val.methods)

\* an interface declaring g before f
C17_Witness ==
  /\ ParsedProxyNatives
  /\ parse_in = <<i_Natives>>
  /\ parsed.out.err = ""
  /\ parsed.out.val.methods[1].name = s_f
  /\ parsed.out.val.methods[2].name = s_g
  /\ parsed.out.val.methods[2].native_class_name = s_Q

----------------------------------------------------------------------------
(* The handle type of a native *)

\* the first parameter is the primitive long with a name starting with
\* 'native'
FirstParamIsHandle(params) ==
  /\ Len(params) > 0
  /\ params[1].java_type.primitive_name = s_long
  /\ params[1].java_type.array_dimensions = 0
  /\ StartsWith(params[1].name, s_native)

WithoutNativePrefix(name) == SubSeq(name, Len(s_native) + 1, Len(name))

\* what the native of a match is: its type, and the handle type of a method,
\* which named(match) tells to take from the annotation
HandleTypeOf(match, native, named(_)) ==
  LET params == parse_param_list(match.params).val
  IN /\ native.name = StoredNativeName(match.name)
     /\ native.params = params
     /\ native.type = IF FirstParamIsHandle(params) THEN "method" ELSE "function"
     /\ native.type = "method" =>
          native.p0_type = IF named(match) THEN match.native_class_name[1]
                           ELSE WithoutNativePrefix(params[1].name)

\* the natives are those of the matches, in some order
NativesHaveHandleTypes(named(_)) ==
  natives.err = "" =>
    /\ Len(natives.val) = Len(nat_in)
    /\ \E perm \in [1..Len(nat_in) -> 1..Len(nat_in)] :
         /\ \A i, j \in 1..Len(nat_in) : perm[i] = perm[j] => i = j
         /\ \A i \in 1..Len(nat_in) :
              HandleTypeOf(nat_in[i], natives.val[perm[i]], named)

Annotated(match) == match.native_class_name # <<>>

AnnotatedWithName(match) ==
  match.native_class_name # <<>> /\ match.native_class_name[1] # <<>>

\* C18: a native is of type 'method' exactly when its first parameter is the
\* primitive long with a name starting with 'native', and of type 'function'
\* otherwise; the handle type p0_type of a 'method' native is the value of
\* the preceding @NativeClassQualifiedName annotation when there is one, and
\* otherwise the name of the first parameter without its 'native' prefix.
C18_HandleType == NativesHaveHandleTypes(Annotated)

\* the same, the value of the annotation being taken when it is not empty
HandleTypeOfNamedAnnotation == NativesHaveHandleTypes(AnnotatedWithName)

HandleTypeCases ==
  /\ natives.err = ""
  /\ nat_in = <<m_nativeBar, m_nativeFoo_Q_int, m_nativeFoo_ptr>>
  /\ \E i \in 1..3 : natives.val[i].type = "method" /\ natives.val[i].p0_type = s_Q
  /\ \E i \in 1..3 : natives.val[i].type = "method" /\ natives.val[i].p0_type = s_Ptr
  /\ \E i \in 1..3 : natives.val[i].type = "function"

----------------------------------------------------------------------------
(* Constructors among the called-by-natives *)

CalledByNativeMatches == SelectKind(parse_in, "called_by_native")

\* what the entry of a match is
RecordedAs(match, entry) ==
  /\ entry.java_class_name = match.annotation
  /\ entry.params = parse_param_list(match.params).val
  /\ IF match.return_type = <<>>
     THEN /\ entry.is_constructor
          /\ entry.name = s_Constructor
          /\ entry.signature.return_type = parse_type(match.name).val
     ELSE /\ ~entry.is_constructor
          /\ entry.name = match.name
          /\ entry.signature.return_type = parse_type(match.return_type).val

\* C19: a @CalledByNative declaration matched with an empty return type is
\* recorded as a constructor, named 'Constructor', is_constructor being true
\* and its return type the type resolved from the declared constructor token;
\* a declaration with a return type is not recorded as a constructor and
\* keeps its own name.
C19_ConstructorBindings ==
  called_by_natives.err = "" =>
    /\ Len(called_by_natives.val) = Len(CalledByNativeMatches)
    /\ \E perm \in [1..Len(CalledByNativeMatches) -> 1..Len(CalledByNativeMatches)] :
         /\ \A i, j \in 1..Len(CalledByNativeMatches) : perm[i] = perm[j] => i = j
         /\ \A i \in 1..Len(CalledByNativeMatches) :
              RecordedAs(CalledByNativeMatches[i], called_by_natives.val[perm[i]])

\* 'public C(int x)' and 'void g()' of the class p/C
C19_Witness ==
  /\ called_by_natives.err = ""
  /\ \E i, j \in 1..Len(parse_in) : parse_in[i] = c_constructor /\ parse_in[j] = c_g
  /\ \E i, j \in 1..Len(called_by_natives.val) :
       /\ called_by_natives.val[i].is_constructor
       /\ called_by_natives.val[i].name = s_Constructor
       /\ called_by_natives.val[i].signature.return_type.java_class = <<"p", "/", "C">>
       /\ ~called_by_natives.val[j].is_constructor
       /\ called_by_natives.val[j].name = s_g

----------------------------------------------------------------------------
(* The namespace annotation *)

ParsedJniNamespace == parsed.op = "_parse_jni_namespace"

\* C20: _parse_jni_namespace returns the empty string for a text without
\* @JNINamespace("...") annotation and the quoted value for a text with one
\* of them, and raises SyntaxError for a text with more than one: it never
\* returns one of several values.
C20_NamespaceOutcome ==
  ParsedJniNamespace =>
    /\ Len(parse_in) = 0 => parsed.out = Ok(<<>>)
    /\ Len(parse_in) = 1 => parsed.out = Ok(parse_in[1])
    /\ Len(parse_in) > 1 => parsed.out.err = "SyntaxError"
    /\ parsed.out.err = "" => Len(parse_in) <= 1

\* two annotations, of two values
C20_Witness ==
  /\ ParsedJniNamespace
  /\ parse_in = <<s_n, s_m>>
  /\ parsed.out.err = "SyntaxError"
  /\ parsed.out.msg = msg_multiple_namespaces

----------------------------------------------------------------------------
(* jni_generator.py: the called-by-natives of a javap output (JNIFromJavaP)
   and the namespace of the generated header *)

MaxJavapLines == 4

s_descriptor_prefix ==
  <<"d","e","s","c","r","i","p","t","o","r",":"," ">>
s_JNI_ ==
  <<"J","N","I","_">>
s_class_ ==
  <<"c","l","a","s","s"," ">>
s_interface_ ==
  <<"i","n","t","e","r","f","a","c","e"," ">>
s_o ==
  <<"o">>
s_javap_compiled ==
  <<"C","o","m","p","i","l","e","d"," ","f","r","o","m"," ","\"","C",".",
    "j","a","v","a","\"">>
s_javap_class ==
  <<"p","u","b","l","i","c"," ","c","l","a","s","s"," ","q",".","C"," ",
    "{">>
s_javap_brace ==
  <<"}">>
s_javap_length ==
  <<" "," ","p","u","b","l","i","c"," ","i","n","t"," ","l","e","n","g","t",
    "h","(",")",";">>
s_javap_valueOf ==
  <<" "," ","p","u","b","l","i","c"," ","s","t","a","t","i","c"," ","q",".",
    "C","<","T",">"," ","v","a","l","u","e","O","f","(","i","n","t",")",
    ";">>
s_javap_ctor ==
  <<" "," ","p","u","b","l","i","c"," ","q",".","C","(","i","n","t",")",
    ";">>
s_javap_desc_I ==
  <<" "," "," "," ","d","e","s","c","r","i","p","t","o","r",":"," ","(",")",
    "I">>
s_javap_desc_V ==
  <<" "," "," "," ","d","e","s","c","r","i","p","t","o","r",":"," ","(","I",
    ")","V">>
msg_no_javap_class ==
  <<"C","o","u","l","d"," ","n","o","t"," ","f","i","n","d"," ","j","a","v",
    "a"," ","c","l","a","s","s"," ","i","n"," ","j","a","v","a","p"," ","o",
    "u","t","p","u","t">>
s_length ==
  <<"l","e","n","g","t","h">>
s_valueOf ==
  <<"v","a","l","u","e","O","f">>

\* parse.remove_generics, lines 69-75
RECURSIVE remove_generics(_)
remove_generics(value) ==
  The({IF Len(ret_) = Len(value) THEN ret_ ELSE remove_generics(ret_) :
         ret_ \in {GenericsSub(value)}})

\* sub stands in s at position k
StartsWithAt(s, sub, k) ==
  k + Len(sub) - 1 <= Len(s) /\ SubSeq(s, k, k + Len(sub) - 1) = sub

\* the last position of the run of characters other than white space that
\* starts at k (k - 1 when there is none)
NonSpaceEnd(s, k) ==
  LET stops == {j \in k..Len(s) : IsSpace(s[j])}
  IN IF stops = {} THEN Len(s) ELSE Min(stops) - 1

\* the same for the run of \w characters
WordEnd(s, k) ==
  LET stops == {j \in k..Len(s) : s[j] \notin IdentChars}
  IN IF stops = {} THEN Len(s) ELSE Min(stops) - 1

\* mutant: the descriptor is the whole line
_ParseJavapDescriptor_WholeLine(line) ==
  IF FindFrom(line, s_descriptor_prefix, 1) = 0 THEN Raise("ValueError")
  ELSE Ok(line)

\* _ParseJavapDescriptor, lines 379-382: str.index raises ValueError
_ParseJavapDescriptor(line) ==
  LET index == FindFrom(line, s_descriptor_prefix, 1)
  IN IF index = 0 THEN Raise("ValueError")
     ELSE Ok(SubSeq(line, index + Len(s_descriptor_prefix), Len(line)))

\* re.match of line 393, '.*?(?:public).*?(?:class|interface) (\S+?)(?: |\Z)':
\* <<>> without a match, else <<group(1)>>
JavapClassMatch(line) ==
  LET pub == FindFrom(line, s_public, 1)
      after(k) == IF StartsWithAt(line, s_class_, k)
                  THEN k + Len(s_class_)
                  ELSE IF StartsWithAt(line, s_interface_, k)
                  THEN k + Len(s_interface_)
                  ELSE 0
      starts == {k \in (pub + Len(s_public))..Len(line) :
                   /\ after(k) # 0
                   /\ after(k) <= Len(line)
                   /\ ~IsSpace(line[after(k)])}
  IN IF pub = 0 \/ starts = {} THEN <<>>
     ELSE <<SubSeq(line, after(Min(starts)), NonSpaceEnd(line, after(Min(starts))))>>

\* line 395: m.group(1).split('<', 1)[0].replace('.', '/')
JavapClassName(group) ==
  ReplaceChar(IF HasChar(group, "<") THEN SubSeq(group, 1, IndexOf(group, "<") - 1)
              ELSE group,
              ".", "/")

\* re.match of re_method, lines 403-405:
\* '(?P<prefix>.*?)(?P<return_type>\S+?) (?P<name>\w+?)\((?P<params>.*?)\)'
JavapMethodMatch(line) ==
  LET name_end(p) == WordEnd(line, NonSpaceEnd(line, p) + 2)
      matches(p) ==
        /\ ~IsSpace(line[p])
        /\ NonSpaceEnd(line, p) < Len(line)
        /\ line[NonSpaceEnd(line, p) + 1] = " "
        /\ name_end(p) >= NonSpaceEnd(line, p) + 2
        /\ name_end(p) < Len(line)
        /\ line[name_end(p) + 1] = "("
        /\ FindFrom(line, <<")">>, name_end(p) + 2) # 0
      starts == {p \in 1..Len(line) : matches(p)}
  IN IF starts = {} THEN <<>>
     ELSE The({<<[prefix |-> SubSeq(line, 1, p - 1),
                  return_type |-> SubSeq(line, p, NonSpaceEnd(line, p)),
                  name |-> SubSeq(line, NonSpaceEnd(line, p) + 2, name_end(p)),
                  params |-> SubSeq(line, name_end(p) + 2,
                                    FindFrom(line, <<")">>, name_end(p) + 2) - 1)]>> :
                 p \in {Min(starts)}})

\* java_types.JavaClass.full_name_with_dots
full_name_with_dots(java_class) == ReplaceChar(java_class, "/", ".")

\* the pattern matches at k: a dot of the pattern stands for any character
PatternAt(line, pattern, k) ==
  /\ k + Len(pattern) - 1 <= Len(line)
  /\ \A i \in 1..Len(pattern) :
       pattern[i] = "." \/ pattern[i] = line[k + i - 1]

\* re.match of re_constructor, lines 427-428:
\* '(.*?)public ' + full_name_with_dots + '\((?P<params>.*?)\)', in which the
\* dots of the name are not escaped
JavapConstructorMatch(line, java_class) ==
  LET name == full_name_with_dots(java_class)
      open(k) == k + Len(s_public_) + Len(name)
      starts == {k \in 1..Len(line) :
                   /\ StartsWithAt(line, s_public_, k)
                   /\ PatternAt(line, name, k + Len(s_public_))
                   /\ open(k) <= Len(line)
                   /\ line[open(k)] = "("
                   /\ FindFrom(line, <<")">>, open(k) + 1) # 0}
  IN IF starts = {} THEN <<>>
     ELSE The({<<[params |-> SubSeq(line, open(k) + 1,
                                    FindFrom(line, <<")">>, open(k) + 1) - 1)]>> :
                 k \in {Min(starts)}})

DigitSeq == <<"0","1","2","3","4","5","6","7","8","9">>

\* parse_param_list with has_names=False, lines 161-174: the parameters are
\* named p0, p1, ...
ParseUnnamedParam(piece, index) ==
  LET param_str == Strip(piece)
      typed == IF EndsWith(param_str, <<".", ".", ".">>)
               THEN SubSeq(param_str, 1, Len(param_str) - 3) \o s_arr
               ELSE param_str
  IN [java_type |-> parse_type(typed), name |-> <<"p", DigitSeq[index + 1]>>]

parse_param_list_unnamed(value) ==
  IF Len(value) = 0 \/ \A i \in 1..Len(value) : IsSpace(value[i])
  THEN Ok(<<>>)
  ELSE The({IF \E i \in 1..Len(ps) : ps[i].java_type.err # ""
            THEN Raise("SyntaxError")
            ELSE Ok([i \in 1..Len(ps) |->
                       [java_type |-> ps[i].java_type.val, name |-> ps[i].name]]) :
              ps \in {LET pieces == Split(RemoveFinal(value, FALSE), ",")
                      IN [i \in 1..Len(pieces) |->
                            ParseUnnamedParam(pieces[i], i - 1)]}})

\* lines[lineno + 1] of lines 414 and 436, for the line at position i (from
\* 1): IndexError after the last line
JavapDescriptorAfter(lines, i) ==
  IF i + 1 > Len(lines) THEN Raise("IndexError")
  ELSE _ParseJavapDescriptor(lines[i + 1])

\* lines 406-424: the entry of the line at position i, <<>> when re_method
\* does not match it
JavapMethod(lines, i, opts) ==
  The({IF match = <<>> THEN <<>>
       ELSE The({<<IF return_type.err # "" THEN return_type
                   ELSE IF params.err # "" THEN params
                   ELSE IF descriptor.err # "" THEN descriptor
                   ELSE Ok([java_class_name |-> <<>>,
                            name |-> match[1].name,
                            signature |-> Signature(return_type.val,
                              [k \in 1..Len(params.val) |-> params.val[k].java_type]),
                            method_id_var_name |-> <<>>,
                            system_class |-> TRUE,
                            unchecked |-> opts.unchecked_exceptions,
                            static |-> HasSubstr(match[1].prefix, s_static),
                            params |-> params.val,
                            is_constructor |-> FALSE,
                            descriptor |-> descriptor.val])>> :
                  return_type \in {parse_type(match[1].return_type)},
                  params \in {parse_param_list_unnamed(match[1].params)},
                  descriptor \in {JavapDescriptorAfter(lines, i)}}) :
         match \in {JavapMethodMatch(lines[i])}})

\* lines 429-447: the entry of a constructor line; its return type is the
\* class itself
JavapConstructor(lines, i, opts, java_class) ==
  The({IF match = <<>> THEN <<>>
       ELSE The({<<IF params.err # "" THEN params
                   ELSE IF descriptor.err # "" THEN descriptor
                   ELSE Ok([java_class_name |-> <<>>,
                            name |-> s_Constructor,
                            signature |-> Signature(ClassType(java_class, 0),
                              [k \in 1..Len(params.val) |-> params.val[k].java_type]),
                            method_id_var_name |-> <<>>,
                            system_class |-> TRUE,
                            unchecked |-> opts.unchecked_exceptions,
                            static |-> FALSE,
                            params |-> params.val,
                            is_constructor |-> TRUE,
                            descriptor |-> descriptor.val])>> :
                  params \in {parse_param_list_unnamed(match[1].params)},
                  descriptor \in {JavapDescriptorAfter(lines, i)}}) :
         match \in {JavapConstructorMatch(lines[i], java_class)}})

\* the entries of a loop in the order of the lines, or the first exception
RECURSIVE Collected(_)
Collected(found) ==
  IF Len(found) = 0 THEN Ok(<<>>)
  ELSE IF found[1] = <<>> THEN Collected(Tail(found))
  ELSE IF found[1][1].err # "" THEN found[1][1]
  ELSE The({IF rest.err # "" THEN rest ELSE Ok(<<found[1][1].val>> \o rest.val) :
              rest \in {Collected(Tail(found))}})

\* line 402: options.namespace or 'JNI_' + self.java_class.name; the option
\* is <<>> when it is None and <<value>> when it was given
JavapNamespace(namespace, java_class) ==
  IF namespace # <<>> /\ namespace[1] # <<>> THEN namespace[1]
  ELSE s_JNI_ \o JavaClass_name(java_class)

\* JNIFromJavaP.__init__ from line 399 on, for enumerate(lines[2:], 2): the
\* methods, then the constructors, then MangleCalledByNatives
JNIFromJavaP(lines, opts, java_class) ==
  The({IF methods.err # "" THEN methods
       ELSE IF constructors.err # "" THEN constructors
       ELSE The({IF mangled.err # "" THEN mangled
                 ELSE Ok([java_class |-> java_class,
                          jni_namespace |-> JavapNamespace(opts.namespace, java_class),
                          called_by_natives |-> mangled.val]) :
                   mangled \in {MangleCalledByNatives(methods.val \o constructors.val)}}) :
         methods \in {Collected([k \in 1..(Len(lines) - 2) |->
                                   JavapMethod(lines, k + 2, opts)])},
         constructors \in {Collected([k \in 1..(Len(lines) - 2) |->
                                        JavapConstructor(lines, k + 2, opts,
                                                         java_class)])}})

----------------------------------------------------------------------------
(* Inputs: javap outputs and options *)

JavapHeads ==
  {<<s_javap_compiled, s_javap_class>>, <<s_javap_compiled, s_javap_brace>>}

JavapBodyLines ==
  {s_javap_length, s_javap_valueOf, s_javap_ctor, s_javap_desc_I,
   s_javap_desc_V}

JavapOutputs ==
  {head \o body : head \in JavapHeads,
                  body \in SeqsUpTo(JavapBodyLines, MaxJavapLines)}

\* options.namespace (None, '' or a name) and options.unchecked_exceptions
JavapOptions ==
  {[namespace |-> <<>>, unchecked_exceptions |-> FALSE],
   [namespace |-> << <<>> >>, unchecked_exceptions |-> FALSE],
   [namespace |-> <<s_o>>, unchecked_exceptions |-> TRUE]}

----------------------------------------------------------------------------
(* Javap actions *)

\* JNIFromJavaP.__init__, lines 389-398: the generics go, the lines are split
\* and the class is looked for; the resolver of the object is that of the
\* class
ReadJavap ==
  /\ parsed = NoCall
  /\ \E output \in JavapOutputs, opts \in JavapOptions :
       \E lines \in {[k \in 1..Len(output) |-> remove_generics(output[k])]} :
         \E found \in {FirstWhere([k \in 1..Len(lines) |-> JavapClassMatch(lines[k])],
                                  LAMBDA m : m # <<>>)} :
            /\ parse_in' = [lines |-> lines, options |-> opts]
            /\ IF found = <<>>
               THEN /\ parsed' = [op |-> "JNIFromJavaP",
                                  out |-> SyntaxError(msg_no_javap_class)]
                    /\ UNCHANGED resolverVars
               ELSE /\ fully_qualified_class' = JavapClassName(found[1][1])
                    /\ imports' = <<>>
                    /\ inner_classes' = <<>>
                    /\ UNCHANGED ret
                    /\ parsed' = [op |-> "javap_lines"]
  /\ UNCHANGED <<mangleVars, nativesVars, genVars>>

\* JNIFromJavaP.__init__, from line 399 on
CreateFromJavap ==
  /\ parsed.op = "javap_lines"
  /\ \E outcome \in {JNIFromJavaP(parse_in.lines, parse_in.options,
                                  fully_qualified_class)} :
       parsed' = [op |-> "JNIFromJavaP", out |-> outcome]
  /\ UNCHANGED <<resolverVars, mangleVars, nativesVars, parse_in, genVars>>

JavapNext ==
  \/ ReadJavap
  \/ CreateFromJavap

JavapSpec == Init /\ [][JavapNext]_vars

----------------------------------------------------------------------------
(* C22: the called-by-natives of a javap output *)

JavapObject == parsed.op = "JNIFromJavaP" /\ parsed.out.err = ""

\* the member lines of the outputs: methods and constructors as javap prints
\* them, read after the second line
JavapMethodLines ==
  {s_javap_length, remove_generics(s_javap_valueOf)}

JavapConstructorLines == {s_javap_ctor}

LinesAmong(texts) ==
  SelectSeq([k \in 1..(Len(parse_in.lines) - 2) |-> k + 2],
            LAMBDA i : parse_in.lines[i] \in texts)

JavapMemberLines ==
  LinesAmong(JavapMethodLines) \o LinesAmong(JavapConstructorLines)

\* the text of the line is 'descriptor: ' and the descriptor, after anything
DescriptorOnLine(line, descriptor) ==
  \E k \in 0..Len(line) :
    line = SubSeq(line, 1, k) \o s_descriptor_prefix \o descriptor

\* C22: every called-by-native built from a javap output has system_class
\* set and, as descriptor, the text after 'descriptor: ' on the line that
\* follows its member line; the entry of a constructor line
\* 'public <class>(...)' is named Constructor, has is_constructor set and is
\* not static.
C22_JavapCalledByNatives ==
  JavapObject =>
    LET entries == parsed.out.val.called_by_natives
        members == JavapMemberLines
    IN /\ Len(entries) = Len(members)
       /\ \A k \in 1..Len(entries) :
            /\ entries[k].system_class
            /\ members[k] < Len(parse_in.lines)
            /\ DescriptorOnLine(parse_in.lines[members[k] + 1],
                                entries[k].descriptor)
            /\ entries[k].is_constructor
                 <=> parse_in.lines[members[k]] \in JavapConstructorLines
            /\ entries[k].is_constructor =>
                 entries[k].name = s_Constructor /\ ~entries[k].static

\* an object of a method and of a constructor, with two descriptors
C22_Witness ==
  /\ JavapObject
  /\ \E i, j \in 1..Len(parsed.out.val.called_by_natives) :
       LET entries == parsed.out.val.called_by_natives
       IN /\ ~entries[i].is_constructor
          /\ entries[i].static
          /\ entries[j].is_constructor
          /\ entries[i].descriptor # entries[j].descriptor

----------------------------------------------------------------------------
(* jni_generator.py: the object of a Java source file (JNIFromJavaSource) *)

\* line 495: parsed_file.jni_namespace or options.namespace; the option and
\* the outcome are <<>> when they are None and <<value>> otherwise
SourceNamespace(jni_namespace, namespace) ==
  IF jni_namespace # <<>> THEN <<jni_namespace>> ELSE namespace

\* lines 500-509: the NativeMethod of a method of the proxy interface; static
\* is is_proxy when it is not given
ProxyNative(parsed_method) ==
  [NativeMethod(TRUE,
                IF parsed_method.native_class_name = <<>> THEN <<>>
                ELSE <<parsed_method.native_class_name>>,
                parsed_method.return_type, parsed_method.params,
                parsed_method.name)
     EXCEPT !.is_proxy = TRUE]

\* JNIFromJavaSource.__init__
JNIFromJavaSource(parsed_file, opts) ==
  [filename |-> parsed_file.filename,
   java_class |-> parsed_file.java_class,
   jni_namespace |-> SourceNamespace(parsed_file.jni_namespace, opts.namespace),
   module_name |-> parsed_file.module_name,
   natives |-> [i \in 1..Len(parsed_file.proxy_methods) |->
                  ProxyNative(parsed_file.proxy_methods[i])]
                 \o parsed_file.non_proxy_natives,
   called_by_natives |-> parsed_file.called_by_natives]

\* RemoveTestOnlyNatives, lines 522-523
RemoveTestOnlyNatives(list) == SelectSeq(list, LAMBDA n : ~n.is_test_only)

\* options.namespace and options.include_test_only
SourceOptions ==
  {[namespace |-> <<>>, include_test_only |-> TRUE],
   [namespace |-> << <<>> >>, include_test_only |-> FALSE],
   [namespace |-> <<s_o>>, include_test_only |-> FALSE],
   [namespace |-> <<s_o>>, include_test_only |-> TRUE]}

\* JNIFromJavaSource.CreateFromFile, line 536, once parse_java_file has
\* returned the parsed file
CreateFromFile ==
  /\ parsed.op = "parse_java_file"
  /\ parsed.out.err = ""
  /\ \E opts \in SourceOptions :
       \E jni_obj \in {JNIFromJavaSource(parsed.out.val, opts)} :
         parsed' = [op |-> "JNIFromJavaSource", options |-> opts, out |-> Ok(jni_obj)]
  /\ UNCHANGED <<resolverVars, mangleVars, nativesVars, parse_in, genVars>>

\* DoGeneration, line 1148, and GetContent, lines 525-530: the header of the
\* object is generated from self.natives and self.called_by_natives
GetContent ==
  /\ parsed.op = "JNIFromJavaSource"
  /\ parsed' = [op |-> "GetContent", options |-> parsed.options,
                jni_obj |-> parsed.out.val,
                natives |-> parsed.out.val.natives,
                called_by_natives |-> parsed.out.val.called_by_natives]
  /\ UNCHANGED <<resolverVars, mangleVars, nativesVars, parse_in, genVars>>

ObjectNext ==
  \/ ReadJavaFile
  \/ ExtractJavaFile
  \/ CreateFromFile
  \/ GetContent
  \/ ReadJavap
  \/ CreateFromJavap

ObjectSpec == Init /\ [][ObjectNext]_vars

----------------------------------------------------------------------------
(* C21: the namespace of the header *)

SourceObject == parsed.op = "JNIFromJavaSource"

\* a namespace that is None and one that is '' both leave the header without
\* a namespace
NamespaceText(namespace) == IF namespace = <<>> THEN <<>> ELSE namespace[1]

\* the namespace the claim gives to the object of a source file and to the
\* object of a javap output; given(_) and present(_) say when an option counts
\* as given and when the annotations of a file count as present
ClaimedNamespaces(present(_), given(_)) ==
  /\ SourceObject =>
       LET annotations == parse_in.file.namespaces
       IN NamespaceText(parsed.out.val.jni_namespace)
            = IF present(annotations) THEN annotations[1]
              ELSE NamespaceText(parsed.options.namespace)
  /\ JavapObject =>
       LET namespace == parse_in.options.namespace
       IN parsed.out.val.jni_namespace
            = IF given(namespace) THEN namespace[1]
              ELSE s_JNI_ \o JavaClass_name(fully_qualified_class)

AnyValue(values) == values # <<>>

NamedValue(values) == values # <<>> /\ values[1] # <<>>

\* C21 (as claimed): for a Java source the namespace is the @JNINamespace
\* value of the file when there is one and --namespace only without an
\* annotation; for a javap output it is --namespace when given and 'JNI_'
\* followed by the simple class name otherwise.
C21_NamespacePrecedence == ClaimedNamespaces(AnyValue, AnyValue)

\* what the code does: an annotation and an option count when their value is
\* not empty
NamespaceOfNamedValues == ClaimedNamespaces(NamedValue, NamedValue)

\* the cases: an annotation over an option, an option without annotation,
\* and, for javap, an option and none
NamespaceCases ==
  \/ /\ SourceObject
     /\ parse_in.file.namespaces = <<s_n>>
     /\ parsed.options.namespace = <<s_o>>
     /\ parsed.out.val.jni_namespace = <<s_n>>
  \/ /\ SourceObject
     /\ parse_in.file.namespaces = <<>>
     /\ parsed.out.val.jni_namespace = <<s_o>>
  \/ /\ JavapObject
     /\ parsed.out.val.jni_namespace \in {s_o, s_JNI_ \o s_C}

----------------------------------------------------------------------------
(* C23: test-only natives *)

HeaderGenerated == parsed.op = "GetContent"

NameEndsInForTest(native) ==
  EndsWith(native.name, s_ForTest) \/ EndsWith(native.name, s_ForTesting)

\* the natives of the list whose name has no test suffix, in their order
WithoutTestNames(list) == SelectSeq(list, LAMBDA n : ~NameEndsInForTest(n))

\* the natives with which the object of the file was made
CreatedNatives == parsed.jni_obj.natives

\* C23 (as claimed): with include_test_only false the natives of which the
\* header of a source file is generated hold no native whose name ends in
\* ForTest or ForTesting, the other natives and the called-by-natives being
\* kept in their order; with include_test_only true no native is removed.
C23_TestOnlyNatives ==
  HeaderGenerated =>
    /\ parsed.called_by_natives = parsed.jni_obj.called_by_natives
    /\ parsed.natives = IF parsed.options.include_test_only THEN CreatedNatives
                        ELSE WithoutTestNames(CreatedNatives)

\* RemoveTestOnlyNatives, if it is called, leaves the natives without a test
\* suffix in their order
RemovalKeepsOthers ==
  SourceObject =>
    RemoveTestOnlyNatives(parsed.out.val.natives)
      = WithoutTestNames(parsed.out.val.natives)

\* with include_test_only true the claim holds
TestOnlyNativesKept ==
  HeaderGenerated /\ parsed.options.include_test_only =>
    parsed.natives = CreatedNatives

\* a header generated with include_test_only false of natives of which one is
\* for tests
TestOnlyCases ==
  /\ HeaderGenerated
  /\ ~parsed.options.include_test_only
  /\ \E i, j \in 1..Len(parsed.natives) :
       NameEndsInForTest(parsed.natives[i]) /\ ~NameEndsInForTest(parsed.natives[j])

----------------------------------------------------------------------------
(* C24: overloaded legacy natives *)

ExtractedNatives == natives.err = "" /\ nat_in # <<>>

\* C24 (as claimed): after the extraction two legacy natives of one name and
\* of different signatures each carry a method_id_var_name and the two
\* differ, and a native whose name is unique carries its plain name.
C24_OverloadedNatives ==
  ExtractedNatives =>
    \A i \in 1..Len(natives.val) :
      LET native == natives.val[i]
          overloads == {j \in 1..Len(natives.val) :
                          /\ j # i
                          /\ natives.val[j].name = native.name
                          /\ natives.val[j].signature # native.signature}
          same_name == {j \in 1..Len(natives.val) : natives.val[j].name = native.name}
      IN /\ \A j \in overloads :
              /\ native.method_id_var_name # <<>>
              /\ native.method_id_var_name # natives.val[j].method_id_var_name
         /\ same_name = {i} => native.method_id_var_name = native.name

\* what the code does: NativeMethod.__init__ is given no method_id_var_name
\* and nothing sets one later
NativesCarryNoMethodId ==
  ExtractedNatives =>
    \A i \in 1..Len(natives.val) : natives.val[i].method_id_var_name = <<>>

\* two natives of one name and of different signatures were extracted
OverloadedNativesExtracted ==
  /\ ExtractedNatives
  /\ \E i, j \in 1..Len(natives.val) :
       /\ natives.val[i].name = natives.val[j].name
       /\ natives.val[i].signature # natives.val[j].signature

----------------------------------------------------------------------------
(* C25: the order of the steps of the extraction *)

\* whether a step fails on the file that was read, and the text with which
\* the message of its error starts
StepFails(step) ==
  LET file == parse_in.file
  IN CASE step = "package" -> file.package = <<>>
       [] step = "classes" -> Len(FoundClasses) = 0
       [] step = "file name" -> Len(FoundClasses) > 0 /\ FoundClass # ExpectedName
       [] step = "proxy interface" ->
            \/ Len(file.interfaces) > 1
            \/ Len(file.interfaces) = 1 /\ Len(file.interfaces[1].methods) = 0
       [] step = "namespace" -> Len(file.namespaces) > 1
       [] step = "called-by-natives" ->
            \E i \in 1..Len(file.chunks) :
              file.chunks[i].kind = "text" /\ HasSubstr(file.chunks[i].text, s_marker)
       [] OTHER -> FALSE

StepMessage(step) ==
  LET file == parse_in.file
  IN CASE step = "package" -> msg_no_package
       [] step = "classes" -> msg_no_classes
       [] step = "file name" -> msg_found_class
       [] step = "proxy interface" ->
            IF Len(file.interfaces) > 1 THEN msg_multiple_interfaces
            ELSE msg_no_methods
       [] step = "namespace" -> msg_multiple_namespaces
       [] step = "called-by-natives" -> msg_could_not_parse
       [] OTHER -> <<>>

\* the error of a file is that of the first step of the order that fails on
\* it, and a file on which no step fails is parsed
FirstFailureOf(order) ==
  ParsedJavaFile =>
    LET failing == SelectSeq(order, StepFails)
    IN IF failing = <<>> THEN parsed.out.err = ""
       ELSE /\ parsed.out.err # ""
            /\ StartsWith(parsed.out.msg, StepMessage(failing[1]))

\* the steps that can fail, in the order of the claim
ClaimedOrder ==
  <<"package", "classes", "file name", "proxy interface", "legacy natives",
    "called-by-natives", "namespace">>

\* the steps in the order of _do_parse, lines 259-285
CodeOrder_do_parse ==
  <<"package", "classes", "file name", "proxy interface", "namespace",
    "legacy natives", "called-by-natives">>

\* C25 (as claimed): the extraction takes its steps in the order comments,
\* generics, package, classes, file name, imports, proxy interface, legacy
\* natives, called-by-natives, namespace, and the error raised is that of the
\* first step that fails: a file with an unmatched @CalledByNative and two
\* @JNINamespace annotations fails with the @CalledByNative error.
C25_StepOrderAsClaimed == FirstFailureOf(ClaimedOrder)

\* C25 (amended): the namespace is parsed after the proxy interface and
\* before the legacy natives and the called-by-natives, and the error raised
\* is that of the first step that fails in that order: a file with an
\* unmatched @CalledByNative and two @JNINamespace annotations fails with the
\* @JNINamespace error, and a file with neither package nor class with the
\* missing-package error.
C25_StepOrder == FirstFailureOf(CodeOrder_do_parse)

\* a file with an unmatched @CalledByNative and two @JNINamespace
\* annotations, and nothing else that fails
C25_Witness ==
  /\ ParsedJavaFile
  /\ StepFails("called-by-natives")
  /\ StepFails("namespace")
  /\ ~StepFails("package") /\ ~StepFails("classes") /\ ~StepFails("file name")
  /\ ~StepFails("proxy interface")
  /\ parsed.out.err = "SyntaxError"
  /\ StartsWith(parsed.out.msg, msg_multiple_namespaces)

\* a file with neither package nor class fails with the missing-package error
NoPackageNoClass ==
  /\ ParsedJavaFile
  /\ StepFails("package")
  /\ StepFails("classes")
  /\ StartsWith(parsed.out.msg, msg_no_package)

----------------------------------------------------------------------------
(* C26: the class declarations of a file *)

\* the text before the declaration holds an odd number of double quotes:
\* each quote of the text changes the parity
RECURSIVE OddNumberOfQuotes(_)
OddNumberOfQuotes(text) ==
  IF text = <<>> THEN FALSE
  ELSE (Head(text) = "\"") # OddNumberOfQuotes(Tail(text))

OddQuotes(match) == OddNumberOfQuotes(match.preamble)

\* the declarations of the file that are not ignored, in their order
Declarations == SelectSeq(parse_in.file.classes, LAMBDA m : ~OddQuotes(m))

ClassesRead ==
  /\ parsed.op \in {"_do_parse", "parse_java_file"}
  /\ parse_in.file.package # <<>>

\* C26: a declaration line whose text before the declaration holds an odd
\* number of double quotes is ignored; the first declaration accepted is the
\* outer class <package with slashes>/<Name>, every later one is a direct
\* nested class of the outer class, and a file of which no declaration is
\* accepted raises SyntaxError.
C26_ClassDeclarations ==
  ClassesRead =>
    LET outer == ReplaceChar(parse_in.file.package, ".", "/") \o <<"/">>
                   \o Declarations[1].class_name
        prefixed(c) == IF parse_in.package_prefix = <<>> THEN c
                       ELSE make_prefixed(c, parse_in.package_prefix)
    IN /\ Declarations = <<>> =>
            /\ parsed.op = "parse_java_file"
            /\ parsed.out.err = "SyntaxError"
            /\ StartsWith(parsed.out.msg, msg_no_classes)
       /\ parsed.op = "_do_parse" =>
            /\ Declarations # <<>>
            /\ fully_qualified_class = prefixed(outer)
            /\ inner_classes =
                 [i \in 1..(Len(Declarations) - 1) |->
                    prefixed(outer \o <<"$">> \o Declarations[i + 1].class_name)]

\* a file whose first match is ignored and whose second and third
\* declarations are the outer class and its nested class
C26_Witness ==
  /\ parsed.op = "_do_parse"
  /\ parse_in.file.classes = <<c_D_quoted, c_C_annotated, c_I>>
  /\ parse_in.package_prefix = <<>>
  /\ fully_qualified_class = s_p_C
  /\ inner_classes = <<s_p_C \o <<"$">> \o s_I>>

----------------------------------------------------------------------------
(* C27: Kotlin inputs *)

IsKotlin(file) == EndsWith(file.filename, s_kt)

\* the inputs that were handed to the parser: those of the objects made and
\* the one on which the parsing has ended
HandedToParser ==
  SubSeq(options.input_files, 1,
         IF pc \in {"exit", "AssertionError"}
              /\ Len(jni_objs) < Len(options.input_files)
         THEN Len(jni_objs) + 1
         ELSE Len(jni_objs))

\* the run has ended on the parsing of a Kotlin file
EndedOnKotlin ==
  /\ pc = "AssertionError"
  /\ Len(jni_objs) < Len(options.input_files)
  /\ IsKotlin(options.input_files[Len(jni_objs) + 1])

\* C27 (as claimed): main drops every '.kt' input before the generation, so
\* that no '.kt' path among the input files is handed to the Java parser and
\* none makes the run fail.
C27_KotlinSkipped ==
  /\ \A i \in 1..Len(HandedToParser) : ~IsKotlin(HandedToParser[i])
  /\ ~EndedOnKotlin

\* what the code does: a Kotlin file that the parsing reaches ends the run
\* with the AssertionError of _do_parse, which nothing catches
KotlinInputEndsRun ==
  \A i \in 1..Len(HandedToParser) :
    IsKotlin(HandedToParser[i]) =>
      /\ i = Len(HandedToParser)
      /\ pc = "AssertionError"
      /\ exit_status = 1
      /\ written_headers = <<>>

\* a Java file was parsed, then a Kotlin file ended the run
KotlinCase ==
  /\ EndedOnKotlin
  /\ Len(jni_objs) = 1
  /\ WithoutKotlin(options.args_input_files) # options.input_files

----------------------------------------------------------------------------
(* C30: one header an input *)

RunSucceeded == pc = "done"

\* the i-th header has the content of the i-th input under the i-th name
HeaderOfInput(i) ==
  /\ i <= Len(written_headers)
  /\ written_headers[i].content = options.input_files[i].filename
  /\ written_headers[i].name = options.output_names[1][i]

\* C30 (as claimed): on a run of which every input parses DoGeneration writes
\* exactly one header an input, the content of the i-th input under the i-th
\* output name, in the order of the inputs, and no input is left without a
\* header.
C30_OneHeaderPerInput ==
  RunSucceeded =>
    /\ Len(written_headers) = Len(options.input_files)
    /\ \A i \in 1..Len(options.input_files) : HeaderOfInput(i)

\* what the code does: the headers are those of the pairs of zip, as many as
\* the shorter of the two lists has elements
HeadersOfPairs ==
  RunSucceeded =>
    /\ Len(written_headers)
         = Min({Len(options.input_files), Len(options.output_names[1])})
    /\ \A i \in 1..Len(written_headers) : HeaderOfInput(i)

\* with a name for every input the claim holds
HeadersOfNamedInputs ==
  RunSucceeded /\ Len(options.output_names[1]) >= Len(options.input_files) =>
    /\ Len(written_headers) = Len(options.input_files)
    /\ \A i \in 1..Len(options.input_files) : HeaderOfInput(i)

\* a run of three inputs and two names has ended with two headers
FewerNamesThanInputs ==
  /\ RunSucceeded
  /\ Len(options.input_files) = 3
  /\ Len(options.output_names[1]) = 2
  /\ Len(written_headers) = 2
  /\ exit_status = 0

----------------------------------------------------------------------------
(* Registration of nested types *)

ImportsParsed == ret.op = "parse_imports_and_nested_types"

NestedName(name) == fully_qualified_class \o <<"$">> \o name

Registered(path) == \E k \in 1..Len(inner_classes) : inner_classes[k] = path

DeclaredIn(contents) ==
  {DeclaredTypeNames(contents)[i] : i \in 1..Len(DeclaredTypeNames(contents))}

EnclosingName == SimpleNameOf(fully_qualified_class)

\* C29: after parse_imports_and_nested_types every class, interface or enum
\* name declared in the contents, other than the name of the enclosing class,
\* is registered as <enclosing class>$Name, and resolving a registered Name
\* returns <enclosing class>$Name; the enclosing class is never registered as
\* its own nested class.
C29_NestedTypesRegistered ==
  /\ ImportsParsed =>
       \A name \in DeclaredIn(ret.contents) :
         name # EnclosingName => Registered(NestedName(name))
  /\ ~Registered(NestedName(EnclosingName))
  /\ (Resolved /\ IsSimpleName(ret.param) /\ Registered(NestedName(ret.param)))
       => ret.out = Ok(NestedName(ret.param))

\* What the code registers: the declared names that are not the end of the
\* path of the enclosing class, in textual order after those registered
\* before; a name that is the end of that path is left out, whether or not it
\* is the name of the enclosing class.
NestedOfNonSuffixNames ==
  /\ ImportsParsed =>
       /\ \A name \in DeclaredIn(ret.contents) :
            IF EndsWith(fully_qualified_class, name)
            THEN Registered(NestedName(name))
                   <=> \E k \in 1..Len(ret.inner_classes_before) :
                         ret.inner_classes_before[k] = NestedName(name)
            ELSE Registered(NestedName(name))
       /\ Len(inner_classes) >= Len(ret.inner_classes_before)
       /\ SubSeq(inner_classes, 1, Len(ret.inner_classes_before))
            = ret.inner_classes_before
  /\ ~Registered(NestedName(EnclosingName))
  /\ (Resolved /\ IsSimpleName(ret.param) /\ Registered(NestedName(ret.param)))
       => ret.out = Ok(NestedName(ret.param))

\* a nested class whose name ends the name of its enclosing class
SuffixNameDeclared ==
  /\ ImportsParsed
  /\ fully_qualified_class = s_p_XC
  /\ s_C \in DeclaredIn(ret.contents)
  /\ ~Registered(NestedName(s_C))

\* the nested class C of p/XC resolves to the class p/C
SuffixNameResolvedElsewhere ==
  /\ Resolved
  /\ fully_qualified_class = s_p_XC
  /\ ret.param = s_C
  /\ ret.out = Ok(s_p_C)

\* a nested class is registered and resolved
NestedNameResolved ==
  /\ Resolved
  /\ Registered(NestedName(ret.param))
  /\ ret.out = Ok(NestedName(ret.param))

----------------------------------------------------------------------------
(* jni_zero.py: the launcher *)

MaxExecs == 3    \* processes one launch may replace itself with

_MIN_PYTHON_MINOR == 8

s_python3_ == <<"p","y","t","h","o","n","3",".">>

\* str(i) of a natural number
RECURSIVE Str(_)
Str(i) ==
  IF i < 10 THEN <<DigitSeq[i + 1]>>
  ELSE Str(i \div 10) \o <<DigitSeq[(i % 10) + 1]>>

\* f'python3.{i}'
PythonName(i) == s_python3_ \o Str(i)

\* py_version < (3, _MIN_PYTHON_MINOR): the order of tuples, on the major
\* and minor numbers of sys.version_info
OlderThanMinimum(py_version) ==
  \/ py_version[1] < 3
  \/ py_version[1] = 3 /\ py_version[2] < _MIN_PYTHON_MINOR

\* os.environ.get('JNI_ZERO_RELAUNCHED') as a condition: the variable is
\* there and its value is not the empty string
Relaunched(environ) == environ # <<>> /\ environ[1] # <<>>

\* the names python3.8 .. python3.29 that shutil.which finds, in the order
\* of the loop
NewerPythons(path) ==
  {i \in _MIN_PYTHON_MINOR..29 : PythonName(i) \in path}

\* mutant: the environment is handed on as it is
RelaunchEnviron_Unchanged(environ) == environ

\* lines 150-151: env = os.environ.copy(); env['JNI_ZERO_RELAUNCHED'] = '1'
RelaunchEnviron(environ) == <<(<<"1">>)>>

\* the interpreters of a run
PythonVersions == {<<2, 7>>, <<3, 7>>, <<3, 8>>, <<3, 12>>, <<4, 0>>}

\* JNI_ZERO_RELAUNCHED: not there, empty, '1'
Environs == {<<>>, <<(<<>>)>>, <<(<<"1">>)>>}

\* the python3.N on PATH
Paths == SUBSET {PythonName(i) : i \in {7, 9, 10, 29, 30}}

\* the interpreter runs the script: python3 jni_zero.py ...
StartProcess ==
  /\ pc = "idle"
  /\ \E py_version \in PythonVersions, environ \in Environs, path \in Paths :
       options' = [py_version |-> py_version, environ |-> environ,
                   path |-> path, execs |-> <<>>]
  /\ pc' = "__main__"
  /\ UNCHANGED <<resolverVars, mangleVars, nativesVars, parseVars,
                 jni_objs, written_headers, written_srcjar, exit_status>>

\* _maybe_relaunch_with_newer_python, lines 140-157.  os.execvpe replaces
\* the process by the interpreter found, which runs the script from its
\* start; what version that interpreter is, is the installation's matter.
\* An execvpe that fails raises OSError.
MaybeRelaunch ==
  /\ pc = "__main__"
  /\ IF ~OlderThanMinimum(options.py_version)
     THEN /\ pc' = "returned"
          /\ UNCHANGED <<options, exit_status>>
     ELSE IF Relaunched(options.environ)
     THEN /\ pc' = "exit"
          /\ exit_status' = 1
          /\ UNCHANGED options
     ELSE IF NewerPythons(options.path) = {}
     THEN /\ pc' = "exit"
          /\ exit_status' = 1
          /\ UNCHANGED options
     ELSE \E i \in {Min(NewerPythons(options.path))} :
            /\ Len(options.execs) < MaxExecs
            /\ \/ /\ \E py_version \in PythonVersions \cup {<<3, i>>} :
                       options' = [py_version |-> py_version,
                                   environ |-> RelaunchEnviron(options.environ),
                                   path |-> options.path,
                                   execs |-> Append(options.execs,
                                     [name |-> PythonName(i),
                                      py_version |-> options.py_version,
                                      environ |-> options.environ])]
                  /\ pc' = "__main__"
                  /\ UNCHANGED exit_status
               \/ /\ pc' = "OSError"
                  /\ exit_status' = 1
                  /\ UNCHANGED options
  /\ UNCHANGED <<resolverVars, mangleVars, nativesVars, parseVars,
                 jni_objs, written_headers, written_srcjar>>

\* line 185: main()
CallMain ==
  /\ pc = "returned"
  /\ pc' = "main"
  /\ UNCHANGED <<resolverVars, mangleVars, nativesVars, parseVars,
                 options, jni_objs, written_headers, written_srcjar,
                 exit_status>>

LaunchNext ==
  \/ StartProcess
  \/ MaybeRelaunch
  \/ CallMain

\* a process runs on until it ends
LaunchSpec ==
  /\ Init
  /\ [][LaunchNext]_vars
  /\ WF_vars(MaybeRelaunch)
  /\ WF_vars(CallMain)

Launched == pc \in {"__main__", "returned", "main", "exit", "OSError"}

\* the launcher has decided for the process that runs now
Decided == pc \in {"returned", "main", "exit"}

RelaunchCount == Len(options.execs)

\* what the launcher does is what the claim says of it
LaunchRules ==
  Launched =>
    /\ RelaunchCount <= 1
    /\ \A k \in 1..RelaunchCount :
         LET e == options.execs[k]
         IN /\ OlderThanMinimum(e.py_version)
            /\ ~Relaunched(e.environ)
            /\ NewerPythons(options.path) # {}
            /\ e.name = PythonName(Min(NewerPythons(options.path)))
            /\ options.environ = <<(<<"1">>)>>
    /\ Decided =>
         IF ~OlderThanMinimum(options.py_version)
         THEN pc \in {"returned", "main"} /\ exit_status = -1
         ELSE /\ pc = "exit"
              /\ exit_status = 1
              /\ Relaunched(options.environ) \/ NewerPythons(options.path) = {}
    /\ pc = "OSError" =>
         /\ exit_status = 1
         /\ OlderThanMinimum(options.py_version)
         /\ ~Relaunched(options.environ)
         /\ NewerPythons(options.path) # {}

\* C28: under a Python older than 3.8 the launcher exits with status 1
\* without an exec when JNI_ZERO_RELAUNCHED is set, and otherwise execs the
\* lowest python3.N (8 <= N < 30) on PATH with JNI_ZERO_RELAUNCHED=1, or
\* exits with status 1 when there is none; under 3.8 or newer it neither
\* execs nor exits.  No launch relaunches more than once, and every launch
\* ends in main or with exit status 1.
C28_RelaunchAtMostOnce ==
  /\ []LaunchRules
  /\ (pc = "__main__") ~> (pc = "main" \/ exit_status = 1)

\* a relaunched process that still runs an old Python has given up
C28_Witness ==
  /\ pc = "exit"
  /\ exit_status = 1
  /\ RelaunchCount = 1
  /\ options.execs[1].name = PythonName(9)
  /\ PythonName(10) \in options.path
  /\ OlderThanMinimum(options.py_version)

\* a relaunched process reaches main
RelaunchedIntoMain ==
  pc = "main" /\ RelaunchCount = 1 /\ options.execs[1].environ = <<(<<>>)>>

====
